---- MODULE Spec2Model ----
(***************************************************************************)
(* A model of the StackAssembly evaluator (crates/stack-assembly): the     *)
(* operand stack, the memory, the call stack, the effect slot and the      *)
(* dispatch of every operator, as driven by a host through step, run and   *)
(* the public fields.                                                      *)
(*                                                                         *)
(* A Value is a 32-bit word.  The model carries every word by its signed   *)
(* (two's complement) reading, -2^31 .. 2^31-1, because the checker's      *)
(* integers are themselves 32 bits wide; the unsigned reading of a word w  *)
(* is w for w >= 0 and w + 2^32 for w < 0.  Unsigned quantities (u32 and   *)
(* the usize values made from them) are carried the same way and compared  *)
(* with ult.                                                               *)
(***************************************************************************)
EXTENDS Integers, Sequences, FiniteSets, TLC

----------------------------------------------------------------------------
(* 32-bit words                                                            *)

I32_MAX == 2147483647

I32_MIN == -I32_MAX - 1

WordBits == 32

\* Value::to_bool is not among the sources; it is modelled from the
\* description of jump_if ("nonzero = true").
to_bool(v) == v # 0

\* From<bool> for Value: the comparisons push 1 for true and 0 for false.
from_bool(c) == IF c THEN 1 ELSE 0

\* Unsigned "less than" on two words carried by their signed reading.
ult(a, b) == IF (a >= 0) <=> (b >= 0) THEN a < b ELSE b < 0

Pow2(n) == 2 ^ n

\* The bits of a word, least significant first (bit i of the word at i + 1).
\* \div rounds down, so the bits of a negative word are those of its two's
\* complement representation.
Bits(v) ==
    [i \in 1..WordBits |->
        IF i = WordBits THEN (IF v < 0 THEN 1 ELSE 0)
        ELSE (v \div Pow2(i - 1)) % 2]

RECURSIVE SumLow(_, _)
SumLow(bits, i) ==
    IF i = 0 THEN 0 ELSE bits[i] * Pow2(i - 1) + SumLow(bits, i - 1)

\* The word with the given bits.
FromBits(bits) ==
    LET low == SumLow(bits, WordBits - 1)
    IN  IF bits[WordBits] = 1 THEN (low - I32_MAX) - 1 ELSE low

\* A variant of the addition that stops at the ends of the i32 range.
saturating_add(a, b) ==
    IF a > 0 /\ b > 0 /\ a > I32_MAX - b THEN I32_MAX
    ELSE IF a < 0 /\ b < 0 /\ a < I32_MIN - b THEN I32_MIN
    ELSE a + b

\* i32::wrapping_add
wrapping_add(a, b) ==
    IF a > 0 /\ b > 0 /\ a > I32_MAX - b
        THEN ((((a - I32_MAX) - 1) + b) - I32_MAX) - 1
    ELSE IF a < 0 /\ b < 0 /\ a < I32_MIN - b
        THEN ((((a + I32_MAX) + 1) + b) + I32_MAX) + 1
    ELSE a + b


\* i32::wrapping_sub
wrapping_sub(a, b) ==
    IF b = I32_MIN THEN wrapping_add(a, I32_MIN)
    ELSE wrapping_add(a, -b)

\* Byte k (0 = least significant) of a word; \div rounds down, so this is
\* the byte of the two's complement representation also for negative words.
Byte(v, k) == (v \div (256 ^ k)) % 256

\* i32::wrapping_mul, by long multiplication over the bytes of a and b, of
\* which only the lowest four bytes of the product are kept.
wrapping_mul(a, b) ==
    LET c0 == Byte(a, 0) * Byte(b, 0)
        c1 == Byte(a, 0) * Byte(b, 1) + Byte(a, 1) * Byte(b, 0) + c0 \div 256
        c2 == Byte(a, 0) * Byte(b, 2) + Byte(a, 1) * Byte(b, 1)
                + Byte(a, 2) * Byte(b, 0) + c1 \div 256
        c3 == Byte(a, 0) * Byte(b, 3) + Byte(a, 1) * Byte(b, 2)
                + Byte(a, 2) * Byte(b, 1) + Byte(a, 3) * Byte(b, 0)
                + c2 \div 256
        top == c3 % 256
    IN  (c0 % 256) + (c1 % 256) * 256 + (c2 % 256) * 65536
          + (IF top >= 128 THEN top - 256 ELSE top) * 16777216

\* Truncating division by a positive divisor.
QuotPos(a, b) ==
    IF a >= 0 \/ a % b = 0 THEN a \div b ELSE (a \div b) + 1

\* A variant of the remainder that is never negative.
RemFloor(a, b) == a % b

RemPos(a, b) ==
    IF a >= 0 \/ a % b = 0 THEN a % b ELSE (a % b) - b

\* a / b on i32, for b # 0 and not (a = I32_MIN and b = -1).
quotient(a, b) ==
    IF b > 0 THEN QuotPos(a, b)
    ELSE IF b = I32_MIN THEN (IF a = I32_MIN THEN 1 ELSE 0)
    ELSE -QuotPos(a, -b)

\* a % b on i32, for b # 0 and not (a = I32_MIN and b = -1).
remainder(a, b) ==
    IF b > 0 THEN RemPos(a, b)
    ELSE IF b = I32_MIN THEN (IF a = I32_MIN THEN 0 ELSE a)
    ELSE RemPos(a, -b)

bitand(a, b) ==
    LET x == Bits(a) y == Bits(b)
    IN  FromBits([i \in 1..WordBits |-> IF x[i] = 1 /\ y[i] = 1 THEN 1 ELSE 0])

bitor(a, b) ==
    LET x == Bits(a) y == Bits(b)
    IN  FromBits([i \in 1..WordBits |-> IF x[i] = 1 \/ y[i] = 1 THEN 1 ELSE 0])

bitxor(a, b) ==
    LET x == Bits(a) y == Bits(b)
    IN  FromBits([i \in 1..WordBits |-> IF x[i] # y[i] THEN 1 ELSE 0])

count_ones(a) == Cardinality({i \in 1..WordBits : Bits(a)[i] = 1})

leading_zeros(a) ==
    LET x == Bits(a)
        ones == {i \in 1..WordBits : x[i] = 1}
    IN  IF ones = {} THEN WordBits
        ELSE WordBits - (CHOOSE i \in ones : \A j \in ones : j <= i)

trailing_zeros(a) ==
    LET x == Bits(a)
        ones == {i \in 1..WordBits : x[i] = 1}
    IN  IF ones = {} THEN WordBits
        ELSE (CHOOSE i \in ones : \A j \in ones : i <= j) - 1

\* i32::rotate_left(n): n is a u32, and the rotation is by n modulo 32.
rotate_left(a, n) ==
    LET x == Bits(a)
        k == n % WordBits
    IN  FromBits([i \in 1..WordBits |-> x[((i - 1 - k) % WordBits) + 1]])

rotate_right(a, n) ==
    LET x == Bits(a)
        k == n % WordBits
    IN  FromBits([i \in 1..WordBits |-> x[((i - 1 + k) % WordBits) + 1]])

\* a << k for 0 <= k < 32.
shl(a, k) ==
    LET x == Bits(a)
    IN  FromBits([i \in 1..WordBits |-> IF i - k >= 1 THEN x[i - k] ELSE 0])

\* a >> k for 0 <= k < 32, on i32: the sign bit fills from the left.
shr(a, k) ==
    LET x == Bits(a)
    IN  FromBits([i \in 1..WordBits |->
                    IF i + k <= WordBits THEN x[i + k] ELSE x[WordBits]])

\* Whether a shift amount overflows: `a << n` with n: i32 outside 0..31.
shift_overflows(n) == n < 0 \/ n >= WordBits

----------------------------------------------------------------------------
(* Effects, operators and scripts                                          *)

None == "None"

Underflow == "OperandStackUnderflow"

\* effect.rs: the closed set of effects.
Effects ==
    { "AssertionFailed", "DivisionByZero", "IntegerOverflow", "InvalidAddress",
      "InvalidOperandStackIndex", "InvalidReference", "OperandStackUnderflow",
      "OutOfOperators", "Return", "UnknownIdentifier", "Yield" }

\* The three kinds of operator.  Every operator carries both fields, so that
\* operators of different kinds can be compared: `text` is the identifier's
\* text or the reference's name, `value` the integer's value.
Identifier(value) == [kind |-> "Identifier", text |-> value, value |-> 0]

Integer(value) == [kind |-> "Integer", text |-> "", value |-> value]

Reference(name) == [kind |-> "Reference", text |-> name, value |-> 0]

\* A label names the operator that follows it: `operator` is its index.
Label(name, operator) == [name |-> name, operator |-> operator]

Script(ops, lbls) == [operators |-> ops, labels |-> lbls]

\* The identifiers that evaluate_next_operator recognizes.
Vocabulary ==
    { "*", "+", "-", "/", "<", "<=", "=", ">", ">=", "and", "or", "xor",
      "count_ones", "leading_zeros", "trailing_zeros", "rotate_left",
      "rotate_right", "shift_left", "shift_right", "copy", "drop", "jump",
      "jump_if", "call", "call_either", "return", "assert", "yield", "read",
      "write" }

\* The memory of a fresh evaluation has 1024 words.
MemoryLen == 1024

----------------------------------------------------------------------------
(* Compilation                                                             *)

\* A source text is a sequence of characters, each a string of length one;
\* the offsets into it count from 0, as the byte offsets of an ASCII text.

\* char::is_whitespace, on the characters of ASCII: the space, the newline,
\* the tab, the carriage return, the form feed and the vertical tab (U+000B,
\* written as the character itself).
Whitespace == { " ", "\n", "\t", "\r", "\f", "" }

\* The string made of the characters of a sequence.
RECURSIVE Join(_)
Join(chars) == IF chars = << >> THEN "" ELSE chars[1] \o Join(Tail(chars))

\* char::to_digit: the value of a digit of a radix up to 16, and 16 for
\* every character that is no such digit.
to_digit(c) ==
    CASE c = "0" -> 0 [] c = "1" -> 1 [] c = "2" -> 2 [] c = "3" -> 3
      [] c = "4" -> 4 [] c = "5" -> 5 [] c = "6" -> 6 [] c = "7" -> 7
      [] c = "8" -> 8 [] c = "9" -> 9
      [] c \in {"a", "A"} -> 10 [] c \in {"b", "B"} -> 11
      [] c \in {"c", "C"} -> 12 [] c \in {"d", "D"} -> 13
      [] c \in {"e", "E"} -> 14 [] c \in {"f", "F"} -> 15
      [] OTHER -> 16

\* The number that the first n of the digits denote in the radix, as
\* hi * 2^16 + lo; not ok if one of them is no digit of the radix or if the
\* number is 2^32 or more.
RECURSIVE magnitude(_, _, _)
magnitude(digits, radix, n) ==
    IF n = 0 THEN [ok |-> TRUE, hi |-> 0, lo |-> 0]
    ELSE LET m  == magnitude(digits, radix, n - 1)
             d  == to_digit(digits[n])
             lo == m.lo * radix + d
             hi == m.hi * radix + (lo \div 65536)
         IN  IF ~m.ok \/ d >= radix \/ hi >= 65536
                 THEN [ok |-> FALSE, hi |-> 0, lo |-> 0]
                 ELSE [ok |-> TRUE, hi |-> hi, lo |-> lo % 65536]

\* i32::from_str_radix: an optional sign and at least one digit, with a value
\* in the i32 range.
i32_from_str_radix(src, radix) ==
    IF src = << >> THEN [ok |-> FALSE, value |-> 0]
    ELSE IF src[1] \in {"+", "-"} /\ Len(src) = 1
        THEN [ok |-> FALSE, value |-> 0]
    ELSE LET signed == src[1] \in {"+", "-"}
             digits == IF signed THEN Tail(src) ELSE src
             m      == magnitude(digits, radix, Len(digits))
         IN  IF ~m.ok THEN [ok |-> FALSE, value |-> 0]
             ELSE IF src[1] = "-"
                 THEN IF m.hi < 32768
                          THEN [ok |-> TRUE, value |-> -(m.hi * 65536 + m.lo)]
                      ELSE IF m.hi = 32768 /\ m.lo = 0
                          THEN [ok |-> TRUE, value |-> I32_MIN]
                      ELSE [ok |-> FALSE, value |-> 0]
             ELSE IF m.hi < 32768
                 THEN [ok |-> TRUE, value |-> m.hi * 65536 + m.lo]
             ELSE [ok |-> FALSE, value |-> 0]

\* A variant of u32::from_str_radix whose value is at most i32::MAX.
u32_from_str_radix_saturating(src, radix) ==
    IF src = << >> THEN [ok |-> FALSE, value |-> 0]
    ELSE IF src[1] \in {"+", "-"} /\ Len(src) = 1
        THEN [ok |-> FALSE, value |-> 0]
    ELSE LET digits == IF src[1] = "+" THEN Tail(src) ELSE src
             m      == magnitude(digits, radix, Len(digits))
         IN  IF ~m.ok THEN [ok |-> FALSE, value |-> 0]
             ELSE IF m.hi < 32768
                 THEN [ok |-> TRUE, value |-> m.hi * 65536 + m.lo]
             ELSE [ok |-> TRUE, value |-> I32_MAX]

\* u32::from_str_radix, followed by Operator::integer_u32: an optional `+`
\* and at least one digit, with a value below 2^32; the value is carried by
\* its signed reading.
u32_from_str_radix(src, radix) ==
    IF src = << >> THEN [ok |-> FALSE, value |-> 0]
    ELSE IF src[1] \in {"+", "-"} /\ Len(src) = 1
        THEN [ok |-> FALSE, value |-> 0]
    ELSE LET digits == IF src[1] = "+" THEN Tail(src) ELSE src
             m      == magnitude(digits, radix, Len(digits))
         IN  IF ~m.ok THEN [ok |-> FALSE, value |-> 0]
             ELSE IF m.hi < 32768
                 THEN [ok |-> TRUE, value |-> m.hi * 65536 + m.lo]
             ELSE [ok |-> TRUE, value |-> (m.hi - 65536) * 65536 + m.lo]

\* The operator that a token which is no label compiles to.  A token has
\* a hexadecimal value if token.split_once("0x") is Some(("", value)): if it
\* begins with "0x".
parse_operator(token) ==
    LET has_hex_prefix ==
            Len(token) >= 2 /\ token[1] = "0" /\ token[2] = "x"
        hex == SubSeq(token, 3, Len(token))
    IN  IF token[1] = "@"
            THEN Reference(Join(Tail(token)))
        ELSE IF has_hex_prefix /\ i32_from_str_radix(hex, 16).ok
            THEN Integer(i32_from_str_radix(hex, 16).value)
        ELSE IF has_hex_prefix /\ u32_from_str_radix(hex, 16).ok
            THEN Integer(u32_from_str_radix(hex, 16).value)
        ELSE IF i32_from_str_radix(token, 10).ok
            THEN Integer(i32_from_str_radix(token, 10).value)
        ELSE IF u32_from_str_radix(token, 10).ok
            THEN Integer(u32_from_str_radix(token, 10).value)
        ELSE Identifier(Join(token))

\* A variant of push_operator that leaves next_index as it is.
push_operator_unindexed(c, operator, range) ==
    [c EXCEPT
        !.operators  = Append(@, operator),
        !.source_map = [k \in DOMAIN @ \cup {c.next_index} |->
                           IF k = c.next_index THEN range ELSE @[k]]]

\* A variant of push_operator whose range begins behind the first character
\* of the token.
push_operator_late(c, operator, range) ==
    [c EXCEPT
        !.operators  = Append(@, operator),
        !.source_map = [k \in DOMAIN @ \cup {c.next_index} |->
                           IF k = c.next_index
                               THEN [range EXCEPT !.start = @ + 1]
                               ELSE @[k]],
        !.next_index = @ + 1]

\* The end of parse_token: operators.push(operator), source_map.insert(
\* *next_index, range) and next_index.value += 1.  The source map is a
\* function from the keys inserted so far to their ranges.
push_operator(c, operator, range) ==
    [c EXCEPT
        !.operators  = Append(@, operator),
        !.source_map = [k \in DOMAIN @ \cup {c.next_index} |->
                           IF k = c.next_index THEN range ELSE @[k]],
        !.next_index = @ + 1]

\* A variant of parse_token whose labels name the operator before them.
parse_token_behind(script, start, end, c) ==
    LET token == SubSeq(script, start + 1, end)
    IN  IF token[Len(token)] = ":"
            THEN [c EXCEPT !.labels =
                     Append(@, Label(Join(SubSeq(token, 1, Len(token) - 1)),
                                     IF c.operators = << >> THEN 0
                                     ELSE Len(c.operators) - 1))]
        ELSE push_operator(c, parse_operator(token),
                           [start |-> start, end |-> end])

\* parse_token, for the token at the offsets start..end of the script.  A
\* token whose last `:` is its last character is a label, named by what is in
\* front of that `:`, and emits no operator; any other token emits one
\* operator.
parse_token(script, start, end, c) ==
    LET token == SubSeq(script, start + 1, end)
    IN  IF token[Len(token)] = ":"
            THEN [c EXCEPT !.labels =
                     Append(@, Label(Join(SubSeq(token, 1, Len(token) - 1)),
                                     Len(c.operators)))]
        ELSE push_operator(c, parse_operator(token),
                           [start |-> start, end |-> end])

\* The offset of the first character from offset i on that is in the set
\* (or, with `outside`, that is not in it), and the length of the script if
\* there is none.
find(script, i, chars, outside) ==
    LET Found(j) == (script[j + 1] \in chars) # outside
    IN  IF \E j \in i..(Len(script) - 1) : Found(j)
            THEN CHOOSE j \in i..(Len(script) - 1) :
                    Found(j) /\ \A k \in i..(j - 1) : ~Found(k)
            ELSE Len(script)

\* The loop of Script::compile over script.char_indices(), from offset i on,
\* where the state is Initial.  The turns of the loop that leave the state
\* as it is are taken together: Initial skips whitespace; on a `#` the state
\* is Comment up to the next newline; on another character it is Token, from
\* that offset up to the next whitespace, where the token is parsed.  A token
\* that the script ends in is parsed after the loop.
RECURSIVE compile_from(_, _, _)
compile_from(script, i, c) ==
    LET start   == find(script, i, Whitespace, TRUE)
        newline == find(script, start, {"\n"}, FALSE)
        end     == find(script, start, Whitespace, FALSE)
    IN  IF start = Len(script) THEN c
        ELSE IF script[start + 1] = "#"
            THEN IF newline = Len(script) THEN c
                 ELSE compile_from(script, newline + 1, c)
        ELSE IF end = Len(script) THEN parse_token(script, start, end, c)
        ELSE compile_from(script, end + 1, parse_token(script, start, end, c))

\* Script::compile
compile(script) ==
    LET c == compile_from(script, 0,
                          [operators |-> << >>, labels |-> << >>,
                           source_map |-> << >>, next_index |-> 0])
    IN  [operators |-> c.operators, labels |-> c.labels,
         source_map |-> c.source_map]

----------------------------------------------------------------------------
(* The state                                                               *)

VARIABLES
    source,           \* the text that Eval::start was given
    source_map,       \* Script.source_map: operator index -> range in source
    operators,        \* Eval.operators: the script's operators (1-based here)
    labels,           \* Eval.labels: the script's labels, in source order
    next_operator,    \* Eval.next_operator: index of the operator to dispatch
    call_stack,       \* Eval.call_stack: return addresses, last pushed last
    effect,           \* Eval.effect: None, or the stored effect
    operand_stack,    \* Eval.operand_stack.values: top of the stack last
    memory,           \* Eval.memory.values: address -> word
    panicked,         \* whether a call into the evaluator has panicked
    overflow_checks,  \* whether the build checks arithmetic overflow (debug)
    last_call,        \* the most recent call made by the host
    before,           \* what the host could observe before that call
    run_count,        \* how many times the host has called run (SpecYield)
    host_calls,       \* how many pushes, pops and writes the host has made
    calls,            \* the calls made on the evaluation, in order (SpecTwin)
    twin              \* a second evaluation of the same source (SpecTwin)

vars ==
    << source, source_map, operators, labels, next_operator, call_stack,
       effect, operand_stack,
       memory, panicked, overflow_checks, last_call, before, run_count,
       host_calls, calls, twin >>

\* The mutable part of Eval, as one record.
Eval ==
    [ next_operator |-> next_operator,
      call_stack    |-> call_stack,
      effect        |-> effect,
      operand_stack |-> operand_stack,
      memory        |-> memory,
      panicked      |-> panicked ]

\* The same record in the next state.
EvalNext ==
    [ next_operator |-> next_operator',
      call_stack    |-> call_stack',
      effect        |-> effect',
      operand_stack |-> operand_stack',
      memory        |-> memory',
      panicked      |-> panicked' ]

\* A variant of start that has dispatched the first operator.
start_dispatched ==
    [ next_operator |-> 1,
      call_stack    |-> << >>,
      effect        |-> None,
      operand_stack |-> << >>,
      memory        |-> [a \in 0..(MemoryLen - 1) |-> 0],
      panicked      |-> FALSE ]

\* Eval::start: nothing is evaluated; the memory is 1024 zeroed words.
start ==
    [ next_operator |-> 0,
      call_stack    |-> << >>,
      effect        |-> None,
      operand_stack |-> << >>,
      memory        |-> [a \in 0..(MemoryLen - 1) |-> 0],
      panicked      |-> FALSE ]

\* Script::map_operator_to_source
map_operator_to_source(operator) ==
    IF operator \in DOMAIN source_map
        THEN [ok |-> TRUE, range |-> source_map[operator]]
        ELSE [ok |-> FALSE]

\* Script::operators: the operators, each with its index, counted from 0.
operators_with_indices ==
    [k \in 1..Len(operators) |->
        [index |-> k - 1, operator |-> operators[k]]]

----------------------------------------------------------------------------
(* The operand stack                                                       *)

\* OperandStack::push
push(e, v) == [e EXCEPT !.operand_stack = Append(@, v)]

\* OperandStack::pop: the top value, or no value when the stack is empty.
pop(e) ==
    IF e.operand_stack = << >>
        THEN [ok |-> FALSE, eval |-> e]
        ELSE [ok    |-> TRUE,
              value |-> e.operand_stack[Len(e.operand_stack)],
              eval  |-> [e EXCEPT !.operand_stack =
                            SubSeq(@, 1, Len(@) - 1)]]

\* A variant of pop2 that checks the depth first and pops nothing on failure.
pop2_checked(e) ==
    IF Len(e.operand_stack) < 2
        THEN [ok |-> FALSE, eval |-> e]
        ELSE [ok   |-> TRUE,
              b    |-> e.operand_stack[Len(e.operand_stack)],
              a    |-> e.operand_stack[Len(e.operand_stack) - 1],
              eval |-> [e EXCEPT !.operand_stack =
                            SubSeq(@, 1, Len(@) - 2)]]

\* A variant of pop2 that takes the top of the stack for a.
pop2_swapped(e) ==
    LET p == pop(e)
    IN  IF ~p.ok THEN [ok |-> FALSE, eval |-> p.eval]
        ELSE LET q == pop(p.eval)
             IN  IF ~q.ok THEN [ok |-> FALSE, eval |-> q.eval]
                 ELSE [ok |-> TRUE, a |-> p.value, b |-> q.value,
                       eval |-> q.eval]

\* `let b = pop()?; let a = pop()?;`: b is popped first, then a.
pop2(e) ==
    LET p == pop(e)
    IN  IF ~p.ok THEN [ok |-> FALSE, eval |-> p.eval]
        ELSE LET q == pop(p.eval)
             IN  IF ~q.ok THEN [ok |-> FALSE, eval |-> q.eval]
                 ELSE [ok |-> TRUE, b |-> p.value, a |-> q.value,
                       eval |-> q.eval]

\* A variant of the conversion that takes an index beyond the bottom of the
\* stack for the bottom.
convert_operand_stack_index_clamped(stack, index_from_top) ==
    IF Len(stack) = 0 THEN [ok |-> FALSE]
    ELSE IF ult(Len(stack) - 1, index_from_top) THEN [ok |-> TRUE, index |-> 0]
    ELSE [ok |-> TRUE, index |-> (Len(stack) - 1) - index_from_top]

\* convert_operand_stack_index: len.checked_sub(1).checked_sub(index_from_top),
\* where index_from_top is a usize made from a word.
convert_operand_stack_index(stack, index_from_top) ==
    IF Len(stack) = 0 THEN [ok |-> FALSE]
    ELSE IF ult(Len(stack) - 1, index_from_top) THEN [ok |-> FALSE]
    ELSE [ok |-> TRUE, index |-> (Len(stack) - 1) - index_from_top]

\* Vec::swap_remove at a 0-based index: the last value takes the place of the
\* removed one.
swap_remove_at(stack, i) ==
    IF i + 1 = Len(stack) THEN SubSeq(stack, 1, i)
    ELSE SubSeq(stack, 1, i) \o << stack[Len(stack)] >>
           \o SubSeq(stack, i + 2, Len(stack) - 1)

\* Vec::remove at a 0-based index.
remove_at(stack, i) ==
    SubSeq(stack, 1, i) \o SubSeq(stack, i + 2, Len(stack))

----------------------------------------------------------------------------
(* evaluate_next_operator                                                  *)

\* What a dispatch returns: the evaluation as it leaves it, with Ok(()), an
\* Err(effect), or a panic.
Ok(e) == [eval |-> e, result |-> "Ok"]

Err(e, eff) == [eval |-> e, result |-> eff]

Panic(e) == [eval |-> e, result |-> "Panic"]

\* A variant of the binary operators whose comparisons read their operands
\* as unsigned.
binary_value_unsigned(identifier, a, b) ==
    CASE identifier = "*"   -> wrapping_mul(a, b)
      [] identifier = "+"   -> wrapping_add(a, b)
      [] identifier = "-"   -> wrapping_sub(a, b)
      [] identifier = "<"   -> from_bool(ult(a, b))
      [] identifier = "<="  -> from_bool(~ult(b, a))
      [] identifier = "="   -> from_bool(a = b)
      [] identifier = ">"   -> from_bool(ult(b, a))
      [] identifier = ">="  -> from_bool(~ult(a, b))
      [] identifier = "and" -> bitand(a, b)
      [] identifier = "or"  -> bitor(a, b)
      [] identifier = "xor" -> bitxor(a, b)
      [] identifier = "rotate_left"  -> rotate_left(a, b)
      [] identifier = "rotate_right" -> rotate_right(a, b)

\* The value pushed by the binary operators that cannot fail; b was on top.
binary_value(identifier, a, b) ==
    CASE identifier = "*"   -> wrapping_mul(a, b)
      [] identifier = "+"   -> wrapping_add(a, b)
      [] identifier = "-"   -> wrapping_sub(a, b)
      [] identifier = "<"   -> from_bool(a < b)
      [] identifier = "<="  -> from_bool(a <= b)
      [] identifier = "="   -> from_bool(a = b)
      [] identifier = ">"   -> from_bool(a > b)
      [] identifier = ">="  -> from_bool(a >= b)
      [] identifier = "and" -> bitand(a, b)
      [] identifier = "or"  -> bitor(a, b)
      [] identifier = "xor" -> bitxor(a, b)
      [] identifier = "rotate_left"  -> rotate_left(a, b)
      [] identifier = "rotate_right" -> rotate_right(a, b)

BinaryIdentifiers ==
    { "*", "+", "-", "<", "<=", "=", ">", ">=", "and", "or", "xor",
      "rotate_left", "rotate_right" }

\* * + - < <= = > >= and or xor rotate_left rotate_right
evaluate_binary(identifier, e) ==
    LET p == pop2(e)
    IN  IF ~p.ok THEN Err(p.eval, Underflow)
        ELSE Ok(push(p.eval, binary_value(identifier, p.a, p.b)))

\* A variant of / that puts its operands back when it fails.
evaluate_divide_restoring(e) ==
    LET p == pop2(e)
    IN  IF ~p.ok THEN Err(p.eval, Underflow)
        ELSE IF p.b = 0 THEN Err(e, "DivisionByZero")
        ELSE IF p.a = I32_MIN /\ p.b = -1 THEN Err(e, "IntegerOverflow")
        ELSE Ok(push(push(p.eval, quotient(p.a, p.b)), remainder(p.a, p.b)))

\* /
evaluate_divide(e) ==
    LET p == pop2(e)
    IN  IF ~p.ok THEN Err(p.eval, Underflow)
        ELSE IF p.b = 0 THEN Err(p.eval, "DivisionByZero")
        ELSE IF p.a = I32_MIN /\ p.b = -1 THEN Err(p.eval, "IntegerOverflow")
        ELSE Ok(push(push(p.eval, quotient(p.a, p.b)), remainder(p.a, p.b)))

unary_value(identifier, a) ==
    CASE identifier = "count_ones"     -> count_ones(a)
      [] identifier = "leading_zeros"  -> leading_zeros(a)
      [] identifier = "trailing_zeros" -> trailing_zeros(a)

UnaryIdentifiers == { "count_ones", "leading_zeros", "trailing_zeros" }

\* count_ones leading_zeros trailing_zeros
evaluate_unary(identifier, e) ==
    LET p == pop(e)
    IN  IF ~p.ok THEN Err(p.eval, Underflow)
        ELSE Ok(push(p.eval, unary_value(identifier, p.value)))

\* shift_left shift_right: `a << num_positions` and `a >> num_positions` on
\* i32.  A shift amount outside 0..31 panics in a build that checks overflow
\* and is taken modulo 32 in a build that does not.
evaluate_shift(identifier, e) ==
    LET p == pop2(e)
    IN  IF ~p.ok THEN Err(p.eval, Underflow)
        ELSE IF shift_overflows(p.b) /\ overflow_checks THEN Panic(p.eval)
        ELSE LET k == p.b % WordBits
             IN  Ok(push(p.eval, IF identifier = "shift_left"
                                    THEN shl(p.a, k) ELSE shr(p.a, k)))

\* A variant of copy that counts the index from the bottom of the stack.
evaluate_copy_from_bottom(e) ==
    LET p == pop(e)
    IN  IF ~p.ok THEN Err(p.eval, Underflow)
        ELSE LET c == convert_operand_stack_index(p.eval.operand_stack, p.value)
             IN  IF ~c.ok THEN Err(p.eval, "InvalidOperandStackIndex")
                 ELSE Ok(push(p.eval, p.eval.operand_stack[p.value + 1]))

\* A variant of copy that reports an index outside of the stack as an
\* invalid address.
evaluate_copy_address(e) ==
    LET p == pop(e)
    IN  IF ~p.ok THEN Err(p.eval, Underflow)
        ELSE LET c == convert_operand_stack_index(p.eval.operand_stack, p.value)
             IN  IF ~c.ok THEN Err(p.eval, "InvalidAddress")
                 ELSE Ok(push(p.eval, p.eval.operand_stack[c.index + 1]))

\* copy
evaluate_copy(e) ==
    LET p == pop(e)
    IN  IF ~p.ok THEN Err(p.eval, Underflow)
        ELSE LET c == convert_operand_stack_index(p.eval.operand_stack, p.value)
             IN  IF ~c.ok THEN Err(p.eval, "InvalidOperandStackIndex")
                 ELSE Ok(push(p.eval, p.eval.operand_stack[c.index + 1]))

\* drop
evaluate_drop(e) ==
    LET p == pop(e)
    IN  IF ~p.ok THEN Err(p.eval, Underflow)
        ELSE LET c == convert_operand_stack_index(p.eval.operand_stack, p.value)
             IN  IF ~c.ok THEN Err(p.eval, "InvalidOperandStackIndex")
                 ELSE Ok([p.eval EXCEPT !.operand_stack = remove_at(@, c.index)])

\* A variant of jump that stores OutOfOperators when the target is no index
\* of an operator.
evaluate_jump_checked(e) ==
    LET p == pop(e)
    IN  IF ~p.ok THEN Err(p.eval, Underflow)
        ELSE IF ~ult(p.value, Len(operators))
            THEN Err(p.eval, "OutOfOperators")
        ELSE Ok([p.eval EXCEPT !.next_operator = p.value])

\* jump
evaluate_jump(e) ==
    LET p == pop(e)
    IN  IF ~p.ok THEN Err(p.eval, Underflow)
        ELSE Ok([p.eval EXCEPT !.next_operator = p.value])

\* A variant of jump_if that takes only 1 for true.
evaluate_jump_if_one(e) ==
    LET p == pop(e)
    IN  IF ~p.ok THEN Err(p.eval, Underflow)
        ELSE LET q == pop(p.eval)
             IN  IF ~q.ok THEN Err(q.eval, Underflow)
                 ELSE IF q.value = 1
                     THEN Ok([q.eval EXCEPT !.next_operator = p.value])
                     ELSE Ok(q.eval)

\* jump_if: the index is popped first, then the condition.
evaluate_jump_if(e) ==
    LET p == pop(e)
    IN  IF ~p.ok THEN Err(p.eval, Underflow)
        ELSE LET q == pop(p.eval)
             IN  IF ~q.ok THEN Err(q.eval, Underflow)
                 ELSE IF to_bool(q.value)
                     THEN Ok([q.eval EXCEPT !.next_operator = p.value])
                     ELSE Ok(q.eval)

\* A variant of call whose return address is the index of the call itself.
evaluate_call_again(e) ==
    LET pushed == [e EXCEPT !.call_stack = Append(@, e.next_operator - 1)]
        p == pop(pushed)
    IN  IF ~p.ok THEN Err(p.eval, Underflow)
        ELSE Ok([p.eval EXCEPT !.next_operator = p.value])

\* call: the return address is pushed before the index is popped.
evaluate_call(e) ==
    LET pushed == [e EXCEPT !.call_stack = Append(@, e.next_operator)]
        p == pop(pushed)
    IN  IF ~p.ok THEN Err(p.eval, Underflow)
        ELSE Ok([p.eval EXCEPT !.next_operator = p.value])

\* A variant of call_either that pops then before else.
evaluate_call_either_swapped(e) ==
    LET pushed == [e EXCEPT !.call_stack = Append(@, e.next_operator)]
        p == pop(pushed)
    IN  IF ~p.ok THEN Err(p.eval, Underflow)
        ELSE LET q == pop(p.eval)
             IN  IF ~q.ok THEN Err(q.eval, Underflow)
                 ELSE LET r == pop(q.eval)
                      IN  IF ~r.ok THEN Err(r.eval, Underflow)
                          ELSE Ok([r.eval EXCEPT !.next_operator =
                                    IF to_bool(r.value) THEN p.value
                                                        ELSE q.value])

\* call_either: the return address is pushed, then else, then and the
\* condition are popped in that order.
evaluate_call_either(e) ==
    LET pushed == [e EXCEPT !.call_stack = Append(@, e.next_operator)]
        p == pop(pushed)
    IN  IF ~p.ok THEN Err(p.eval, Underflow)
        ELSE LET q == pop(p.eval)
             IN  IF ~q.ok THEN Err(q.eval, Underflow)
                 ELSE LET r == pop(q.eval)
                      IN  IF ~r.ok THEN Err(r.eval, Underflow)
                          ELSE Ok([r.eval EXCEPT !.next_operator =
                                    IF to_bool(r.value) THEN q.value
                                                        ELSE p.value])

\* A variant of return that takes the oldest return address.
evaluate_return_oldest(e) ==
    IF e.call_stack = << >> THEN Err(e, "Return")
    ELSE Ok([e EXCEPT !.next_operator = e.call_stack[1],
                      !.call_stack = SubSeq(@, 2, Len(@))])

\* A variant of return that reports the end of the script as OutOfOperators
\* when there is nothing to return to.
evaluate_return_out(e) ==
    IF e.call_stack = << >> THEN Err(e, "OutOfOperators")
    ELSE Ok([e EXCEPT !.next_operator = e.call_stack[Len(e.call_stack)],
                      !.call_stack = SubSeq(@, 1, Len(@) - 1)])

\* return
evaluate_return(e) ==
    IF e.call_stack = << >> THEN Err(e, "Return")
    ELSE Ok([e EXCEPT !.next_operator = e.call_stack[Len(e.call_stack)],
                      !.call_stack = SubSeq(@, 1, Len(@) - 1)])

\* A variant of assert that keeps an operand that fails it.
evaluate_assert_keeping(e) ==
    LET p == pop(e)
    IN  IF ~p.ok THEN Err(p.eval, Underflow)
        ELSE IF ~to_bool(p.value) THEN Err(e, "AssertionFailed")
        ELSE Ok(p.eval)

\* assert
evaluate_assert(e) ==
    LET p == pop(e)
    IN  IF ~p.ok THEN Err(p.eval, Underflow)
        ELSE IF ~to_bool(p.value) THEN Err(p.eval, "AssertionFailed")
        ELSE Ok(p.eval)

\* A variant of read that takes the address modulo the length of the memory.
evaluate_read_wrapping(e) ==
    LET p == pop(e)
    IN  IF ~p.ok THEN Err(p.eval, Underflow)
        ELSE Ok(push(p.eval, p.eval.memory[p.value % MemoryLen]))

\* A variant of read in which the memory is one buffer that all evaluations
\* share, not a field of each: the word is read from the buffer as the
\* evaluation created first has left it.
evaluate_read_shared(e) ==
    LET p == pop(e)
    IN  IF ~p.ok THEN Err(p.eval, Underflow)
        ELSE IF ~ult(p.value, MemoryLen) THEN Err(p.eval, "InvalidAddress")
        ELSE Ok(push(p.eval, memory[p.value]))

\* read: memory.values.get(address)
evaluate_read(e) ==
    LET p == pop(e)
    IN  IF ~p.ok THEN Err(p.eval, Underflow)
        ELSE IF ~ult(p.value, MemoryLen) THEN Err(p.eval, "InvalidAddress")
        ELSE Ok(push(p.eval, p.eval.memory[p.value]))

\* A variant of write that pops the address first, then the value.
evaluate_write_swapped(e) ==
    LET p == pop(e)
    IN  IF ~p.ok THEN Err(p.eval, Underflow)
        ELSE LET q == pop(p.eval)
             IN  IF ~q.ok THEN Err(q.eval, Underflow)
                 ELSE IF ult(p.value, MemoryLen)
                     THEN Ok([q.eval EXCEPT !.memory[p.value] = q.value])
                     ELSE Err(q.eval, "InvalidAddress")

\* A variant of write that appends a word to the memory when the address is
\* the first one behind it.
evaluate_write_growing(e) ==
    LET p == pop(e)
    IN  IF ~p.ok THEN Err(p.eval, Underflow)
        ELSE LET q == pop(p.eval)
             IN  IF ~q.ok THEN Err(q.eval, Underflow)
                 ELSE IF ult(q.value, MemoryLen)
                     THEN Ok([q.eval EXCEPT !.memory[q.value] = p.value])
                 ELSE IF q.value = MemoryLen
                     THEN Ok([q.eval EXCEPT !.memory =
                                [a \in 0..MemoryLen |->
                                    IF a = MemoryLen THEN p.value ELSE @[a]]])
                     ELSE Err(q.eval, "InvalidAddress")

\* write: the value is popped first, then the address.
evaluate_write(e) ==
    LET p == pop(e)
    IN  IF ~p.ok THEN Err(p.eval, Underflow)
        ELSE LET q == pop(p.eval)
             IN  IF ~q.ok THEN Err(q.eval, Underflow)
                 ELSE IF ult(q.value, MemoryLen)
                     THEN Ok([q.eval EXCEPT !.memory[q.value] = p.value])
                     ELSE Err(q.eval, "InvalidAddress")

\* Operator::Identifier: the chain of comparisons with the identifier's text.
evaluate_identifier(identifier, e) ==
    CASE identifier \in BinaryIdentifiers -> evaluate_binary(identifier, e)
      [] identifier = "/"           -> evaluate_divide(e)
      [] identifier \in UnaryIdentifiers -> evaluate_unary(identifier, e)
      [] identifier \in {"shift_left", "shift_right"}
                                    -> evaluate_shift(identifier, e)
      [] identifier = "copy"        -> evaluate_copy(e)
      [] identifier = "drop"        -> evaluate_drop(e)
      [] identifier = "jump"        -> evaluate_jump(e)
      [] identifier = "jump_if"     -> evaluate_jump_if(e)
      [] identifier = "call"        -> evaluate_call(e)
      [] identifier = "call_either" -> evaluate_call_either(e)
      [] identifier = "return"      -> evaluate_return(e)
      [] identifier = "assert"      -> evaluate_assert(e)
      [] identifier = "yield"       -> Err(e, "Yield")
      [] identifier = "read"        -> evaluate_read(e)
      [] identifier = "write"       -> evaluate_write(e)
      [] OTHER                      -> Err(e, "UnknownIdentifier")

\* A variant of find_label that takes the last match.
find_label_last(name) ==
    LET matches == {i \in 1..Len(labels) : labels[i].name = name}
    IN  IF matches = {} THEN [ok |-> FALSE]
        ELSE [ok |-> TRUE,
              label |-> labels[CHOOSE i \in matches : \A j \in matches : i >= j]]

\* labels.iter().find(|label| label.name == name): the first match, if any.
find_label(name) ==
    LET matches == {i \in 1..Len(labels) : labels[i].name = name}
    IN  IF matches = {} THEN [ok |-> FALSE]
        ELSE [ok |-> TRUE,
              label |-> labels[CHOOSE i \in matches : \A j \in matches : i <= j]]

\* A variant of evaluate_reference that takes a reference to no label for a
\* reference to the first operator.
evaluate_reference_lenient(name, e) ==
    LET l == find_label(name)
    IN  IF ~l.ok THEN Ok(push(e, 0))
        ELSE Ok(push(e, l.label.operator))

\* Operator::Reference
evaluate_reference(name, e) ==
    LET l == find_label(name)
    IN  IF ~l.ok THEN Err(e, "InvalidReference")
        ELSE Ok(push(e, l.label.operator))

\* The match on the operator, entered with the cursor already advanced.
dispatch(operator, e) ==
    CASE operator.kind = "Identifier" -> evaluate_identifier(operator.text, e)
      [] operator.kind = "Integer"    -> Ok(push(e, operator.value))
      [] operator.kind = "Reference"  -> evaluate_reference(operator.text, e)

\* operators.get(next_operator)
has_operator(i) == ult(i, Len(operators))

\* A variant in which an operator that fails stays the next operator: the
\* cursor is advanced only after the operator has succeeded.
evaluate_next_operator_late(e) ==
    IF ~has_operator(e.next_operator) THEN Err(e, "OutOfOperators")
    ELSE LET r == dispatch(operators[e.next_operator + 1],
                           [e EXCEPT !.next_operator = @ + 1])
         IN  IF r.result = "Ok" THEN r
             ELSE [r EXCEPT !.eval.next_operator = e.next_operator]

\* A variant that advances the cursor before looking for the operator.
evaluate_next_operator_early(e) ==
    IF ~has_operator(e.next_operator)
        THEN Err([e EXCEPT !.next_operator = wrapping_add(@, 1)],
                 "OutOfOperators")
    ELSE dispatch(operators[e.next_operator + 1],
                  [e EXCEPT !.next_operator = @ + 1])

\* Eval::evaluate_next_operator
evaluate_next_operator(e) ==
    IF ~has_operator(e.next_operator) THEN Err(e, "OutOfOperators")
    ELSE dispatch(operators[e.next_operator + 1],
                  [e EXCEPT !.next_operator = @ + 1])

\* A variant of store that empties the operand stack along with storing an
\* effect.
store_unwinding(r) ==
    IF r.result = "Ok" THEN r.eval
    ELSE IF r.result = "Panic" THEN [r.eval EXCEPT !.panicked = TRUE]
    ELSE [r.eval EXCEPT !.effect = r.result, !.operand_stack = << >>]

\* `if let Err(effect) = ... { self.effect = Some(effect) }`; a panic leaves
\* the call without storing anything.
store(r) ==
    IF r.result = "Ok" THEN r.eval
    ELSE IF r.result = "Panic" THEN [r.eval EXCEPT !.panicked = TRUE]
    ELSE [r.eval EXCEPT !.effect = r.result]

\* A variant of step without the check for an active effect.
step_unguarded(e) == store(evaluate_next_operator(e))

\* Eval::step
step(e) ==
    IF e.effect # None THEN e
    ELSE store(evaluate_next_operator(e))

----------------------------------------------------------------------------
(* run                                                                     *)

\* The most steps one call to run is followed for.
MaxRunSteps == 12

\* `while self.effect.is_none() { self.step(); }`, followed for at most
\* `fuel` steps.  `returned` tells whether the loop was left.
RECURSIVE run_loop(_, _)
run_loop(e, fuel) ==
    IF e.panicked THEN [eval |-> e, returned |-> FALSE]
    ELSE IF e.effect # None THEN [eval |-> e, returned |-> TRUE]
    ELSE IF fuel = 0 THEN [eval |-> e, returned |-> FALSE]
    ELSE run_loop(step(e), fuel - 1)

\* A variant of run with `if` in place of `while`.
run_once(e) ==
    [eval |-> IF e.effect # None THEN e ELSE step(e), returned |-> TRUE]

\* Eval::run
run(e) == run_loop(e, MaxRunSteps)

----------------------------------------------------------------------------
(* Scripts                                                                 *)

\* One script per identifier of the vocabulary, and one with an identifier
\* outside of it; the host supplies the operands.
SingleIdentifierScripts ==
    { Script(<< Identifier(id) >>, << >>) : id \in Vocabulary \cup {"unknown"} }

\* "1 @2 call 3 return 2: 2 return" (tests/control_flow.rs, call_return)
CallReturnScript ==
    Script(<< Integer(1), Reference("2"), Identifier("call"), Integer(3),
              Identifier("return"), Integer(2), Identifier("return") >>,
           << Label("2", 5) >>)

\* "@a call return a: @b call return b: return": a call within a call
NestedCallScript ==
    Script(<< Reference("a"), Identifier("call"), Identifier("return"),
              Reference("b"), Identifier("call"), Identifier("return"),
              Identifier("return") >>,
           << Label("a", 3), Label("b", 6) >>)

\* "@then @else call_either return then: 1 return else: 2 return"
\* (tests/control_flow.rs, call_either_*; the host supplies the condition)
CallEitherScript ==
    Script(<< Reference("then"), Reference("else"), Identifier("call_either"),
              Identifier("return"), Integer(1), Identifier("return"),
              Integer(2), Identifier("return") >>,
           << Label("then", 4), Label("else", 6) >>)

\* "@target jump_if 1 target: 2" (tests/control_flow.rs, jump_if_*; the host
\* supplies the condition)
JumpIfScript ==
    Script(<< Reference("target"), Identifier("jump_if"), Integer(1),
              Integer(2) >>,
           << Label("target", 3) >>)

\* "loop: @loop jump": never triggers an effect
LoopScript ==
    Script(<< Reference("loop"), Identifier("jump") >>, << Label("loop", 0) >>)

\* "yield 1" (tests/evaluation.rs, active_effect_prevents_evaluation_from_advancing)
YieldScript == Script(<< Identifier("yield"), Integer(1) >>, << >>)

\* "1 +" (tests/evaluation.rs, stack_underflow_triggers_effect)
UnderflowScript == Script(<< Integer(1), Identifier("+") >>, << >>)

\* "@invalid" (tests/control_flow.rs, invalid_reference_triggers_effect)
InvalidReferenceScript == Script(<< Reference("invalid") >>, << >>)

\* "" (tests/evaluation.rs, empty_script_triggers_out_of_tokens)
EmptyScript == Script(<< >>, << >>)

\* "0 increment: 1 + yield @increment jump" (eval.rs, the example of `effect`)
IncrementScript ==
    Script(<< Integer(0), Integer(1), Identifier("+"), Identifier("yield"),
              Reference("increment"), Identifier("jump") >>,
           << Label("increment", 1) >>)

Scripts ==
    SingleIdentifierScripts \cup
    { CallReturnScript, NestedCallScript, CallEitherScript, JumpIfScript,
      LoopScript, YieldScript, UnderflowScript, InvalidReferenceScript,
      EmptyScript }

----------------------------------------------------------------------------
(* The texts of the scripts                                                *)

\* The characters of the words that the scripts above are written in: the
\* identifiers of the vocabulary, `unknown`, and the names of the labels.
Spelling(word) ==
    CASE word = "*" -> << "*" >>
      [] word = "+" -> << "+" >>
      [] word = "-" -> << "-" >>
      [] word = "/" -> << "/" >>
      [] word = "<" -> << "<" >>
      [] word = "<=" -> << "<", "=" >>
      [] word = "=" -> << "=" >>
      [] word = ">" -> << ">" >>
      [] word = ">=" -> << ">", "=" >>
      [] word = "and" -> << "a", "n", "d" >>
      [] word = "or" -> << "o", "r" >>
      [] word = "xor" -> << "x", "o", "r" >>
      [] word = "count_ones" -> << "c", "o", "u", "n", "t", "_", "o", "n", "e", "s" >>
      [] word = "leading_zeros" -> << "l", "e", "a", "d", "i", "n", "g", "_", "z", "e", "r", "o", "s" >>
      [] word = "trailing_zeros" -> << "t", "r", "a", "i", "l", "i", "n", "g", "_", "z", "e", "r", "o", "s" >>
      [] word = "rotate_left" -> << "r", "o", "t", "a", "t", "e", "_", "l", "e", "f", "t" >>
      [] word = "rotate_right" -> << "r", "o", "t", "a", "t", "e", "_", "r", "i", "g", "h", "t" >>
      [] word = "shift_left" -> << "s", "h", "i", "f", "t", "_", "l", "e", "f", "t" >>
      [] word = "shift_right" -> << "s", "h", "i", "f", "t", "_", "r", "i", "g", "h", "t" >>
      [] word = "copy" -> << "c", "o", "p", "y" >>
      [] word = "drop" -> << "d", "r", "o", "p" >>
      [] word = "jump" -> << "j", "u", "m", "p" >>
      [] word = "jump_if" -> << "j", "u", "m", "p", "_", "i", "f" >>
      [] word = "call" -> << "c", "a", "l", "l" >>
      [] word = "call_either" -> << "c", "a", "l", "l", "_", "e", "i", "t", "h", "e", "r" >>
      [] word = "return" -> << "r", "e", "t", "u", "r", "n" >>
      [] word = "assert" -> << "a", "s", "s", "e", "r", "t" >>
      [] word = "yield" -> << "y", "i", "e", "l", "d" >>
      [] word = "read" -> << "r", "e", "a", "d" >>
      [] word = "write" -> << "w", "r", "i", "t", "e" >>
      [] word = "unknown" -> << "u", "n", "k", "n", "o", "w", "n" >>
      [] word = "2" -> << "2" >>
      [] word = "a" -> << "a" >>
      [] word = "b" -> << "b" >>
      [] word = "then" -> << "t", "h", "e", "n" >>
      [] word = "else" -> << "e", "l", "s", "e" >>
      [] word = "target" -> << "t", "a", "r", "g", "e", "t" >>
      [] word = "loop" -> << "l", "o", "o", "p" >>
      [] word = "invalid" -> << "i", "n", "v", "a", "l", "i", "d" >>
      [] word = "increment" -> << "i", "n", "c", "r", "e", "m", "e", "n", "t" >>

\* The decimal digits of a natural number.
RECURSIVE Numeral(_)
Numeral(n) ==
    LET Digit(d) ==
            << "0", "1", "2", "3", "4", "5", "6", "7", "8", "9" >>[d + 1]
    IN  IF n < 10 THEN << Digit(n) >>
        ELSE Append(Numeral(n \div 10), Digit(n % 10))

\* The token that an operator of the scripts above is written as.
TokenOf(operator) ==
    CASE operator.kind = "Identifier" -> Spelling(operator.text)
      [] operator.kind = "Reference" -> << "@" >> \o Spelling(operator.text)
      [] operator.kind = "Integer" -> Numeral(operator.value)

\* The tokens of a script from its operator k on (counted from 0): the labels
\* of an operator are written in front of it.
RECURSIVE TokensFrom(_, _)
TokensFrom(script, k) ==
    LET At(label) == label.operator = k
        here == SelectSeq(script.labels, At)
        names == [i \in 1..Len(here) |-> Spelling(here[i].name) \o << ":" >>]
    IN  IF k >= Len(script.operators) THEN names
        ELSE names \o << TokenOf(script.operators[k + 1]) >>
                   \o TokensFrom(script, k + 1)

\* The tokens, with one space between two of them.
RECURSIVE Spaced(_)
Spaced(tokens) ==
    IF tokens = << >> THEN << >>
    ELSE IF Len(tokens) = 1 THEN tokens[1]
    ELSE tokens[1] \o << " " >> \o Spaced(Tail(tokens))

\* The text of a script, as the tests and examples write it.
SourceOf(script) == Spaced(TokensFrom(script, 0))

\* Eval::start(text), as far as the script goes.
Started(text) ==
    /\ source = text
    /\ source_map = compile(text).source_map
    /\ operators = compile(text).operators
    /\ labels = compile(text).labels

----------------------------------------------------------------------------
(* The host                                                                *)

\* The deepest operand stack onto which the host still pushes.
MaxStack == 2

\* The deepest call stack from which the host still steps or runs.
MaxCalls == 3

\* The words the host pushes.
HostValues == { 0, 1, 32, -1, I32_MIN }

\* The most calls to run in SpecYield.
MaxRuns == 60

\* The most pushes, pops and writes that the host makes in one evaluation.
MaxHostCalls == 2

\* The most calls that the host makes on each of two evaluations (SpecTwin).
MaxTwinCalls == 3

\* What is remembered of the state in which a call is made.
Snapshot ==
    [ effect        |-> effect,
      next_operator |-> next_operator,
      depth         |-> Len(operand_stack),
      calls         |-> Len(call_stack) ]

Called(name) ==
    /\ last_call' = name
    /\ before' = Snapshot
    /\ UNCHANGED << calls, twin >>

SetEval(e) ==
    /\ next_operator' = e.next_operator
    /\ call_stack' = e.call_stack
    /\ effect' = e.effect
    /\ operand_stack' = e.operand_stack
    /\ memory' = e.memory
    /\ panicked' = e.panicked

InitWith(scripts) ==
    /\ \E script \in scripts : Started(SourceOf(script))
    /\ overflow_checks \in BOOLEAN
    /\ next_operator = start.next_operator
    /\ call_stack = start.call_stack
    /\ effect = start.effect
    /\ operand_stack = start.operand_stack
    /\ memory = start.memory
    /\ panicked = start.panicked
    /\ last_call = "start"
    /\ before = Snapshot
    /\ run_count = 0
    /\ host_calls = 0
    /\ calls = << >>
    /\ twin = [eval |-> start, done |-> 0]

Init == InitWith(Scripts)

\* The host calls eval.step().
Step ==
    /\ ~panicked
    /\ Len(call_stack) <= MaxCalls
    /\ SetEval(step(Eval))
    /\ Called("step")
    /\ UNCHANGED << source, source_map, operators, labels,
                    overflow_checks, run_count, host_calls >>

\* The host calls eval.run(), and the call ends (with an effect, or in a
\* panic) within MaxRunSteps steps.
Run ==
    /\ ~panicked
    /\ Len(call_stack) <= MaxCalls
    /\ LET r == run(Eval)
       IN  /\ r.returned \/ r.eval.panicked
           /\ SetEval(r.eval)
    /\ Called("run")
    /\ UNCHANGED << source, source_map, operators, labels,
                    overflow_checks, run_count, host_calls >>

\* The host handles the effect: eval.effect = None.
ClearEffect ==
    /\ ~panicked
    /\ effect # None
    /\ effect' = None
    /\ Called("clear")
    /\ UNCHANGED << source, source_map, operators, labels,
                    next_operator, call_stack,
                    operand_stack, memory, panicked, overflow_checks,
                    run_count, host_calls >>

\* The host pushes a word: eval.operand_stack.push(v).
HostPush ==
    /\ ~panicked
    /\ host_calls < MaxHostCalls
    /\ Len(operand_stack) < MaxStack
    /\ \E v \in HostValues : SetEval(push(Eval, v))
    /\ Called("push")
    /\ host_calls' = host_calls + 1
    /\ UNCHANGED << source, source_map, operators, labels,
                    overflow_checks, run_count >>

\* The host pops a word: eval.operand_stack.pop(), which leaves an empty
\* stack as it is.
HostPop ==
    /\ ~panicked
    /\ host_calls < MaxHostCalls
    /\ SetEval(pop(Eval).eval)
    /\ Called("pop")
    /\ host_calls' = host_calls + 1
    /\ UNCHANGED << source, source_map, operators, labels,
                    overflow_checks, run_count >>

\* The host writes a word to the memory: eval.memory.write(address, value),
\* which leaves the memory as it is if the address is outside of it.
HostWrite ==
    /\ ~panicked
    /\ host_calls < MaxHostCalls
    /\ \E address \in {1, MemoryLen}, value \in {3} :
          SetEval(IF ult(address, MemoryLen)
                      THEN [Eval EXCEPT !.memory[address] = value]
                      ELSE Eval)
    /\ Called("write")
    /\ host_calls' = host_calls + 1
    /\ UNCHANGED << source, source_map, operators, labels,
                    overflow_checks, run_count >>

Next == Step \/ Run \/ ClearEffect \/ HostPush \/ HostPop \/ HostWrite

Spec == Init /\ [][Next]_vars

\* The host of the example of `effect`: it runs the increment script and does
\* nothing between two runs but clear the effect.
InitYield == InitWith({IncrementScript})

RunYield ==
    /\ ~panicked
    /\ effect = None
    /\ run_count < MaxRuns
    /\ LET r == run(Eval)
       IN  /\ r.returned \/ r.eval.panicked
           /\ SetEval(r.eval)
    /\ Called("run")
    /\ run_count' = run_count + 1
    /\ UNCHANGED << source, source_map, operators, labels,
                    overflow_checks, host_calls >>

NextYield == RunYield \/ ClearEffect

SpecYield == InitYield /\ [][NextYield]_vars

----------------------------------------------------------------------------
(* Vocabulary of the properties                                            *)

\* The host has just called step in a state without an effect: the call
\* evaluates an operator, or finds none.
Stepping == last_call' = "step" /\ effect = None

\* Stepping, with the identifier `id` as the operator to dispatch.
SteppingOn(id) ==
    /\ Stepping
    /\ has_operator(next_operator)
    /\ operators[next_operator + 1] = Identifier(id)

IsPrefix(s, t) == Len(s) <= Len(t) /\ SubSeq(t, 1, Len(s)) = s

----------------------------------------------------------------------------
(* C1 *)

\* C1: while an effect is stored, a call to step or to run changes nothing:
\* the cursor, the call stack, the operand stack, the memory and the stored
\* effect are after the call what they were before it.
C1_ActiveEffectBlocksEvaluation ==
    [][ (effect # None /\ last_call' \in {"step", "run"}) => EvalNext = Eval ]_vars

\* A step and a run made while Yield was stored, in front of an operator that
\* would have pushed 1.
C1_Witness ==
    /\ operators = YieldScript.operators
    /\ last_call \in {"step", "run"}
    /\ before.effect = "Yield"
    /\ effect = "Yield"
    /\ next_operator = 1
    /\ operand_stack = << >>

----------------------------------------------------------------------------
(* C2 *)

\* C2: for "0 increment: 1 + yield @increment jump", with a host that only
\* clears the effect between two runs, the k-th run ends with Yield stored
\* and the operand stack equal to [k]; the cursor is then behind `yield`, so
\* the next run does not evaluate that `yield` again.
C2_IncrementYieldsK ==
    last_call = "run" =>
        /\ run_count >= 1
        /\ effect = "Yield"
        /\ operand_stack = << run_count >>
        /\ next_operator = 4

\* The third run has ended.
C2_Witness ==
    /\ last_call = "run"
    /\ run_count = 3
    /\ before.effect = None
    /\ before.next_operator = 4
    /\ operand_stack = << 3 >>

----------------------------------------------------------------------------
(* C3 *)

\* C3: the cursor is advanced before the operator is evaluated: a step that
\* dispatches the operator at index i and stores an effect other than
\* OutOfOperators leaves the cursor at i + 1, and the host's clearing of the
\* effect leaves the cursor alone, so the step after it dispatches i + 1.
C3_CursorAdvancesBeforeEffect ==
    [][ /\ (Stepping /\ effect' \notin {None, "OutOfOperators"}) =>
              /\ has_operator(next_operator)
              /\ next_operator' = next_operator + 1
        /\ last_call' = "clear" => next_operator' = next_operator ]_vars

\* A failed `+` at index 1 has been cleared and the cursor is at 2.
C3_Witness ==
    /\ operators = UnderflowScript.operators
    /\ last_call = "clear"
    /\ before.effect = Underflow
    /\ before.next_operator = 2
    /\ next_operator = 2

----------------------------------------------------------------------------
(* C4 *)

\* C4: a step that stores an error effect has changed, besides the effect
\* and the cursor, nothing but the operand stack, from which it has only
\* removed values: the call stack and the memory are what they were before
\* the step and nothing has been pushed, for `call` and `call_either` with too
\* few operands as for every other operator.
C4_ErrorLeavesCallStackAndMemory ==
    [][ ( /\ Stepping
          /\ effect' \in Effects \ {"OutOfOperators", "Return", "Yield"} ) =>
            /\ call_stack' = call_stack
            /\ memory' = memory
            /\ IsPrefix(operand_stack', operand_stack) ]_vars

----------------------------------------------------------------------------
(* C5 *)

\* The operator before every return address is a `call` or a `call_either`.
ReturnAddressesFollowCalls ==
    \A i \in DOMAIN call_stack :
        /\ call_stack[i] >= 1
        /\ call_stack[i] <= Len(operators)
        /\ operators[call_stack[i]] \in
               { Identifier("call"), Identifier("call_either") }

\* C5: a `call` or `call_either` step that succeeds at index i pushes i + 1
\* onto the call stack, and a `return` step with a non-empty call stack
\* removes the most recently pushed return address and makes it the cursor,
\* which is then behind the most recent call not yet returned from: calls
\* return in LIFO order.
C5_ReturnResumesAfterMatchingCall ==
    [][ /\ ReturnAddressesFollowCalls
        /\ ((SteppingOn("call") \/ SteppingOn("call_either")) /\ effect' = None)
              => call_stack' = Append(call_stack, next_operator + 1)
        /\ (SteppingOn("return") /\ call_stack # << >>) =>
              /\ effect' = None
              /\ next_operator' = call_stack[Len(call_stack)]
              /\ call_stack' = SubSeq(call_stack, 1, Len(call_stack) - 1)
              /\ operand_stack' = operand_stack ]_vars

\* The `return` of the inner call of "@a call return a: @b call return
\* b: return" has brought the cursor behind the inner `call`, with the return
\* address of the outer call still on the call stack.
C5_Witness ==
    /\ operators = NestedCallScript.operators
    /\ last_call = "step"
    /\ before.next_operator = 6
    /\ before.calls = 2
    /\ effect = None
    /\ next_operator = 5
    /\ call_stack = << 2 >>

----------------------------------------------------------------------------
(* C6 *)

\* C6: a `return` step with an empty call stack stores Return and leaves the
\* operand stack, the memory and the empty call stack as they were.
C6_ReturnFromTopLevel ==
    [][ (SteppingOn("return") /\ call_stack = << >>) =>
            /\ effect' = "Return"
            /\ operand_stack' = operand_stack
            /\ memory' = memory
            /\ call_stack' = << >> ]_vars

\* `return` has been stepped outside of any call, with two operands on the
\* stack.
C6_Witness ==
    /\ operators = << Identifier("return") >>
    /\ last_call = "step"
    /\ before.effect = None
    /\ before.next_operator = 0
    /\ effect = "Return"
    /\ call_stack = << >>
    /\ Len(operand_stack) = 2

----------------------------------------------------------------------------
(* C7 *)

\* C7: a step made without an effect and with the cursor at or behind the
\* end of the operators stores OutOfOperators and changes nothing else; the
\* host's clearing of OutOfOperators leaves the cursor where it is, so the
\* step after it stores OutOfOperators again.
C7_OutOfOperators ==
    [][ /\ (Stepping /\ ~has_operator(next_operator)) =>
              /\ effect' = "OutOfOperators"
              /\ next_operator' = next_operator
              /\ operand_stack' = operand_stack
              /\ call_stack' = call_stack
              /\ memory' = memory
        /\ (last_call' = "clear" /\ effect = "OutOfOperators") =>
              ~has_operator(next_operator') ]_vars

\* The empty script has been stepped without an effect, and OutOfOperators is
\* stored with the cursor still at 0.
C7_Witness ==
    /\ operators = << >>
    /\ last_call = "step"
    /\ before.effect = None
    /\ before.next_operator = 0
    /\ effect = "OutOfOperators"
    /\ next_operator = 0

----------------------------------------------------------------------------
(* C8 *)

\* The evaluation after k calls to step.
RECURSIVE StepK(_, _)
StepK(e, k) == IF k = 0 THEN e ELSE StepK(step(e), k - 1)

\* C8: a call to run that returns does so with an effect stored, in the
\* state that the least number k >= 0 of calls to step leads to with an
\* effect stored; k = 0 when an effect is stored as run is called.
C8_RunIsRepeatedStep ==
    [][ (last_call' = "run" /\ ~panicked') =>
            /\ effect' # None
            /\ \E k \in 0..MaxRunSteps :
                  /\ StepK(Eval, k).effect # None
                  /\ \A j \in 0..(k - 1) : StepK(Eval, j).effect = None
                  /\ EvalNext = StepK(Eval, k)
            /\ effect # None => EvalNext = Eval ]_vars

\* A run of "1 @2 call 3 return 2: 2 return" from its start has ended, after
\* seven steps, with Return and the operands 1 2 3.
C8_Witness ==
    /\ operators = CallReturnScript.operators
    /\ last_call = "run"
    /\ before.effect = None
    /\ before.next_operator = 0
    /\ effect = "Return"
    /\ operand_stack = << 1, 2, 3 >>
    /\ next_operator = 5

----------------------------------------------------------------------------
(* C9 *)

\* The number of operands that an identifier of the vocabulary pops.
Arity(id) ==
    CASE id \in BinaryIdentifiers \cup
                {"/", "shift_left", "shift_right", "jump_if", "write"} -> 2
      [] id \in UnaryIdentifiers \cup
                {"copy", "drop", "jump", "call", "assert", "read"} -> 1
      [] id = "call_either" -> 3
      [] id \in {"return", "yield"} -> 0

\* C9: an operator dispatched with fewer operands on the stack than it pops
\* stores OperandStackUnderflow and leaves the operand stack empty: the
\* values that were there have been popped and stay popped, and nothing is
\* pushed.  Every step that stores OperandStackUnderflow leaves the operand
\* stack empty.
C9_UnderflowLeavesStackEmpty ==
    [][ /\ \A id \in Vocabulary :
              (SteppingOn(id) /\ Len(operand_stack) < Arity(id)) =>
                  /\ effect' = Underflow
                  /\ operand_stack' = << >>
        /\ (Stepping /\ effect' = Underflow) => operand_stack' = << >> ]_vars

\* The `+` of "1 +" has been stepped with the one operand 1 on the stack.
C9_Witness ==
    /\ operators = UnderflowScript.operators
    /\ last_call = "step"
    /\ before.effect = None
    /\ before.next_operator = 1
    /\ before.depth = 1
    /\ effect = Underflow
    /\ operand_stack = << >>

----------------------------------------------------------------------------
(* C10 *)

\* C10: whatever the operands, a step ends without an effect or with one of
\* the eleven effects stored: no step panics, `shift_left` and `shift_right`
\* with an amount that is negative or at least 32 included.
C10_StepNeverPanics ==
    /\ ~panicked
    /\ effect \in Effects \cup {None}

----------------------------------------------------------------------------
(* An evaluation of one operator on given operands                         *)

\* Init for a script of one identifier out of `ids`, evaluated by a host that
\* has pushed one of `stacks` before the first step.
InitOperands(ids, stacks) ==
    /\ \E id \in ids : Started(Spelling(id))
    /\ overflow_checks \in BOOLEAN
    /\ next_operator = start.next_operator
    /\ call_stack = start.call_stack
    /\ effect = start.effect
    /\ operand_stack \in stacks
    /\ memory = start.memory
    /\ panicked = start.panicked
    /\ last_call = "push"
    /\ before = Snapshot
    /\ run_count = 0
    /\ host_calls = 0
    /\ calls = << >>
    /\ twin = [eval |-> start, done |-> 0]

\* The operands of the arithmetic operators: small numbers, the ends of the
\* i32 range and numbers whose sums and products leave it.
ArithValues ==
    { 0, 1, -1, 2, -2, 3, 5, -7, 65535, 65536, 123456, -654321,
      I32_MAX, I32_MIN }

\* The stacks of the arithmetic operators: a and b, on nothing or on a 7.
ArithStacks ==
    { rest \o << a, b >> :
        rest \in { << >>, << 7 >> }, a \in ArithValues, b \in ArithValues }

InitArith == InitOperands({ "+", "-", "*", "/" }, ArithStacks)

NextArith == Step \/ ClearEffect

SpecArith == InitArith /\ [][NextArith]_vars

\* A step is about to dispatch `id` with at least n operands on the stack.
SteppingWith(id, n) == SteppingOn(id) /\ Len(operand_stack) >= n

\* The operand at depth d of the stack (0 = top).
Operand(d) == operand_stack[Len(operand_stack) - d]

\* The step has replaced the n topmost operands by the words of `results`.
Replaces(n, results) ==
    operand_stack' =
        SubSeq(operand_stack, 1, Len(operand_stack) - n) \o results

----------------------------------------------------------------------------
(* C11 *)

\* The two 16-bit halves of a word's two's complement representation.
Lo16(v) == v % 65536

Hi16(v) == (v \div 65536) % 65536

\* Whether r is a + b modulo 2^32, by addition of the halves with carry.
IsSumMod32(r, a, b) ==
    LET lo == Lo16(a) + Lo16(b)
        hi == Hi16(a) + Hi16(b) + (lo \div 65536)
    IN  Lo16(r) = lo % 65536 /\ Hi16(r) = hi % 65536

\* Whether r is a - b modulo 2^32, by subtraction of the halves with borrow.
IsDifferenceMod32(r, a, b) ==
    LET lo == Lo16(a) - Lo16(b)
        hi == (Hi16(a) - Hi16(b)) + (lo \div 65536)
    IN  Lo16(r) = lo % 65536 /\ Hi16(r) = hi % 65536

\* Limb k of a word's two's complement representation, cut into two limbs
\* of 11 bits and a top limb of 10 bits.
Limb(v, k) ==
    CASE k = 0 -> v % 2048
      [] k = 1 -> (v \div 2048) % 2048
      [] k = 2 -> (v \div 4194304) % 1024

\* Whether r is a * b modulo 2^32, by long multiplication over the limbs, of
\* which the part below 2^32 is kept; where the product is within the i32
\* range, r is the product itself.
IsProductMod32(r, a, b) ==
    LET t0 == Limb(a, 0) * Limb(b, 0)
        t1 == Limb(a, 0) * Limb(b, 1) + Limb(a, 1) * Limb(b, 0)
                + (t0 \div 2048)
        t2 == Limb(a, 0) * Limb(b, 2) + Limb(a, 1) * Limb(b, 1)
                + Limb(a, 2) * Limb(b, 0) + (t1 \div 2048)
    IN  /\ Limb(r, 0) = t0 % 2048
        /\ Limb(r, 1) = t1 % 2048
        /\ Limb(r, 2) = t2 % 1024
        /\ (a \in -46340..46340 /\ b \in -46340..46340) => r = a * b

\* C11: with a and b on top of the operand stack (b topmost), `+`, `-` and
\* `*` replace them by a + b, a - b and a * b modulo 2^32 and store no
\* effect.
C11_ArithmeticWraps ==
    [][ \A id \in {"+", "-", "*"} :
          SteppingWith(id, 2) =>
            LET a == Operand(1)
                b == Operand(0)
                r == operand_stack'[Len(operand_stack')]
            IN  /\ effect' = None
                /\ ~panicked'
                /\ Len(operand_stack') = Len(operand_stack) - 1
                /\ Replaces(2, << r >>)
                /\ r \in I32_MIN..I32_MAX
                /\ id = "+" => IsSumMod32(r, a, b)
                /\ id = "-" => IsDifferenceMod32(r, a, b)
                /\ id = "*" => IsProductMod32(r, a, b) ]_vars

\* `*` has been stepped on 7, 2147483647 and -654321, whose product leaves
\* the i32 range, and has left 654321 - 2^31 on the 7.
C11_Witness ==
    /\ operators = << Identifier("*") >>
    /\ last_call = "step"
    /\ before.depth = 3
    /\ before.next_operator = 0
    /\ effect = None
    /\ operand_stack = << 7, 654321 + I32_MIN >>

----------------------------------------------------------------------------
(* C12 *)

\* Whether `/` is defined on a and b.
Divisible(a, b) == b # 0 /\ ~(a = I32_MIN /\ b = -1)

\* Whether q and r are the quotient and the remainder of the truncating
\* division of a by b: a = q * b + r, |r| < |b|, and r is zero or has the
\* sign of a.
IsTruncatingDivision(q, r, a, b) ==
    /\ IF b > 0 THEN -b < r /\ r < b
                ELSE b < r /\ (b = I32_MIN \/ r < -b)
    /\ r = 0 \/ (r < 0 <=> a < 0)
    /\ a = q * b + r

\* C12: with a and b on top of the operand stack, b # 0 and not (a = -2^31
\* and b = -1), `/` replaces them by the quotient and then the remainder (on
\* top) of the truncating signed division of a by b, and stores no effect.
C12_DivisionTruncates ==
    [][ (SteppingWith("/", 2) /\ Divisible(Operand(1), Operand(0))) =>
            /\ effect' = None
            /\ ~panicked'
            /\ Len(operand_stack') = Len(operand_stack)
            /\ LET q == operand_stack'[Len(operand_stack') - 1]
                   r == operand_stack'[Len(operand_stack')]
               IN  /\ Replaces(2, << q, r >>)
                   /\ IsTruncatingDivision(q, r, Operand(1), Operand(0)) ]_vars

\* "5 -2 /" has left -2 and then 1.
C12_Witness ==
    /\ operators = << Identifier("/") >>
    /\ last_call = "step"
    /\ before.depth = 2
    /\ before.next_operator = 0
    /\ effect = None
    /\ operand_stack = << -2, 1 >>

----------------------------------------------------------------------------
(* C13 *)

\* C13: `/` with the divisor 0 stores DivisionByZero, and `/` with the
\* dividend -2^31 and the divisor -1 stores IntegerOverflow; both operands
\* are consumed, nothing is pushed, and the rest of the stack is as before.
C13_DivisionEffects ==
    [][ SteppingWith("/", 2) =>
            /\ Operand(0) = 0 =>
                  effect' = "DivisionByZero" /\ Replaces(2, << >>)
            /\ (Operand(1) = I32_MIN /\ Operand(0) = -1) =>
                  effect' = "IntegerOverflow" /\ Replaces(2, << >>)
            /\ ~Divisible(Operand(1), Operand(0)) => ~panicked' ]_vars

\* `/` has been stepped on 7, -2^31 and -1: IntegerOverflow is stored and the
\* 7 is what is left.
C13_Witness ==
    /\ operators = << Identifier("/") >>
    /\ last_call = "step"
    /\ before.depth = 3
    /\ before.next_operator = 0
    /\ effect = "IntegerOverflow"
    /\ operand_stack = << 7 >>

----------------------------------------------------------------------------
(* C14 *)

\* C14: each effect is stored only by its trigger: OutOfOperators only with
\* the cursor behind the last operator, IntegerOverflow only by `/` on -2^31
\* and -1, DivisionByZero only by `/` with the divisor 0, AssertionFailed
\* only by `assert`, InvalidAddress only by `read` and `write`,
\* InvalidOperandStackIndex only by `copy` and `drop`, InvalidReference only
\* by a reference, UnknownIdentifier only by an identifier outside of the
\* vocabulary, Yield only by `yield` and Return only by `return`.
C14_EffectsHaveTheirTriggers ==
    [][ Stepping =>
          /\ effect' = "OutOfOperators" => ~has_operator(next_operator)
          /\ effect' = "IntegerOverflow" =>
                /\ SteppingWith("/", 2)
                /\ Operand(1) = I32_MIN /\ Operand(0) = -1
          /\ effect' = "DivisionByZero" =>
                SteppingWith("/", 2) /\ Operand(0) = 0
          /\ effect' = "AssertionFailed" => SteppingOn("assert")
          /\ effect' = "InvalidAddress" =>
                SteppingOn("read") \/ SteppingOn("write")
          /\ effect' = "InvalidOperandStackIndex" =>
                SteppingOn("copy") \/ SteppingOn("drop")
          /\ effect' = "InvalidReference" =>
                /\ has_operator(next_operator)
                /\ operators[next_operator + 1].kind = "Reference"
          /\ effect' = "UnknownIdentifier" =>
                /\ has_operator(next_operator)
                /\ operators[next_operator + 1].kind = "Identifier"
                /\ operators[next_operator + 1].text \notin Vocabulary
          /\ effect' = "Yield" => SteppingOn("yield")
          /\ effect' = "Return" => SteppingOn("return") ]_vars

\* `copy` has been stepped with an index that is not on the stack, and
\* InvalidOperandStackIndex is stored.
C14_Witness ==
    /\ operators = << Identifier("copy") >>
    /\ last_call = "step"
    /\ before.effect = None
    /\ before.depth = 2
    /\ effect = "InvalidOperandStackIndex"

----------------------------------------------------------------------------
(* C15 *)

\* C15: `jump_if` pops the target and then the condition and consumes both
\* whatever the condition is; with a condition other than zero the cursor
\* becomes the target, with the condition zero it stays behind `jump_if`.
C15_JumpIf ==
    [][ SteppingWith("jump_if", 2) =>
            /\ effect' = None
            /\ Replaces(2, << >>)
            /\ next_operator' = IF Operand(1) # 0 THEN Operand(0)
                                                  ELSE next_operator + 1
            /\ call_stack' = call_stack
            /\ memory' = memory ]_vars

\* The `jump_if` of "@target jump_if 1 target: 2" has found a condition
\* other than zero below the target, has consumed both and has moved the
\* cursor to the target.
C15_Witness ==
    /\ operators = JumpIfScript.operators
    /\ last_call = "step"
    /\ before.next_operator = 1
    /\ before.depth = 2
    /\ effect = None
    /\ operand_stack = << >>
    /\ next_operator = 3

----------------------------------------------------------------------------
(* C16 *)

\* C16: `call_either` with three operands pushes the cursor behind itself
\* onto the call stack, pops the else target, the then target and the
\* condition in this order, and makes the then target the cursor if the
\* condition is not zero and the else target if it is; the `return` that
\* takes this return address resumes behind the `call_either`.
C16_CallEither ==
    [][ /\ SteppingWith("call_either", 3) =>
              /\ effect' = None
              /\ Replaces(3, << >>)
              /\ call_stack' = Append(call_stack, next_operator + 1)
              /\ next_operator' = IF Operand(2) # 0 THEN Operand(1)
                                                    ELSE Operand(0)
              /\ memory' = memory
        /\ ( /\ SteppingOn("return")
             /\ call_stack # << >>
             /\ operators[call_stack[Len(call_stack)]] =
                    Identifier("call_either") ) =>
              /\ effect' = None
              /\ operators[next_operator'] = Identifier("call_either") ]_vars

\* In "@then @else call_either return then: 1 return else: 2 return" on the
\* condition 0 the else branch has pushed its 2 and has returned behind the
\* `call_either`.
C16_Witness ==
    /\ operators = CallEitherScript.operators
    /\ last_call = "step"
    /\ before.next_operator = 7
    /\ before.calls = 1
    /\ effect = None
    /\ operand_stack = << 2 >>
    /\ call_stack = << >>
    /\ next_operator = 3

----------------------------------------------------------------------------
(* copy and drop on given stacks                                           *)

\* The deepest stack that `copy` and `drop` are stepped on.
MaxShuffleDepth == 4

\* The values of these stacks: those of "3 5 8 1 copy", further indices, and
\* -1, the largest index there is.
ShuffleStacks ==
    UNION { [1..n -> { 0, 1, 2, 3, 5, 8, -1 }] : n \in 0..MaxShuffleDepth }

InitShuffle == InitOperands({"copy", "drop"}, ShuffleStacks)

NextShuffle == Step \/ ClearEffect

SpecShuffle == InitShuffle /\ [][NextShuffle]_vars

\* Whether the index on top of the stack names a value of the stack that
\* remains below it.
IndexOnStack == Operand(0) \in 0..(Len(operand_stack) - 2)

\* The position, counted from 1 at the bottom, of the value that the index on
\* top of the stack names: len - 1 - i, counted from 0, for the len values
\* that remain.
IndexedPosition == (Len(operand_stack) - 1) - Operand(0)

----------------------------------------------------------------------------
(* C17 *)

\* C17: `copy` and `drop` pop their index first; an index that is not below
\* the number of values that remain, the index 0 on nothing included, stores
\* InvalidOperandStackIndex and leaves the remaining values as they are.  An
\* index as large as 2^32 - 1 does not wrap around to a valid one.
C17_InvalidIndex ==
    [][ \A id \in {"copy", "drop"} :
          (SteppingWith(id, 1) /\ ~IndexOnStack) =>
              /\ effect' = "InvalidOperandStackIndex"
              /\ ~panicked'
              /\ Replaces(1, << >>) ]_vars

\* `drop` has been stepped on 3 5 8 and an index that is not on the stack.
C17_Witness ==
    /\ operators = << Identifier("drop") >>
    /\ last_call = "step"
    /\ before.effect = None
    /\ before.depth = 4
    /\ effect = "InvalidOperandStackIndex"
    /\ operand_stack = << 3, 5, 8 >>

----------------------------------------------------------------------------
(* C18 *)

\* C18: `copy` with an index i that is on the stack pushes the value at
\* position len - 1 - i of the len values that remain once i is popped, and
\* leaves these where they are.
C18_Copy ==
    [][ (SteppingWith("copy", 1) /\ IndexOnStack) =>
            /\ effect' = None
            /\ ~panicked'
            /\ Replaces(1, << operand_stack[IndexedPosition] >>) ]_vars

\* `copy` has been stepped on three values and an index, as in "3 5 8 1
\* copy", and has left 3 5 8 5.
C18_Witness ==
    /\ operators = << Identifier("copy") >>
    /\ last_call = "step"
    /\ before.depth = 4
    /\ effect = None
    /\ operand_stack = << 3, 5, 8, 5 >>

----------------------------------------------------------------------------
(* C19 *)

\* C19: `drop` with an index i that is on the stack removes the value at
\* position len - 1 - i of the len values that remain once i is popped, and
\* keeps the others in their order.
C19_Drop ==
    [][ (SteppingWith("drop", 1) /\ IndexOnStack) =>
            /\ effect' = None
            /\ ~panicked'
            /\ operand_stack' =
                  SubSeq(operand_stack, 1, IndexedPosition - 1) \o
                  SubSeq(operand_stack, IndexedPosition + 1,
                         Len(operand_stack) - 1) ]_vars

\* `drop` has been stepped on three values and an index, as in "3 5 8 1
\* drop", and has left 3 8.
C19_Witness ==
    /\ operators = << Identifier("drop") >>
    /\ last_call = "step"
    /\ before.depth = 4
    /\ effect = None
    /\ operand_stack = << 3, 8 >>

----------------------------------------------------------------------------
(* write and read on given addresses                                       *)

\* "write 3 9 write read", on a stack a' a v of the host: v is written to a,
\* 9 to 3, and a' is read.
WriteReadScript ==
    Script(<< Identifier("write"), Integer(3), Integer(9),
              Identifier("write"), Identifier("read") >>,
           << >>)

\* The addresses and values of the host: the first and the last address of
\* the memory, the first behind it, the address 3 that the script writes,
\* and words that are negative as i32.

InitMemory ==
    /\ Started(SourceOf(WriteReadScript))
    /\ overflow_checks \in BOOLEAN
    /\ next_operator = start.next_operator
    /\ call_stack = start.call_stack
    /\ effect = start.effect
    /\ operand_stack \in
          [1..3 -> { 0, 3, 9, MemoryLen - 1, MemoryLen, -1, I32_MIN }]
    /\ memory = start.memory
    /\ panicked = start.panicked
    /\ last_call = "push"
    /\ before = Snapshot
    /\ run_count = 0
    /\ host_calls = 0
    /\ calls = << >>
    /\ twin = [eval |-> start, done |-> 0]

NextMemory == Step \/ ClearEffect

SpecMemory == InitMemory /\ [][NextMemory]_vars

\* The addresses of the memory.
Addresses == 0..(MemoryLen - 1)

----------------------------------------------------------------------------
(* C20 *)

\* C20: a `write` of v to an address a of the memory stores v at a and
\* leaves every other word of the memory as it is; no step of another
\* operator, `read` included, and nothing the host does here changes the
\* memory; and a `read` of an address a of the memory pushes the word at a.
\* So the `read` of a that follows a `write` of v to a, with no `write` to a
\* in between, pushes v.
C20_WriteThenRead ==
    [][ /\ (SteppingWith("write", 2) /\ Operand(1) \in Addresses) =>
              /\ effect' = None
              /\ Replaces(2, << >>)
              /\ memory'[Operand(1)] = Operand(0)
              /\ \A a \in Addresses \ {Operand(1)} : memory'[a] = memory[a]
        /\ (SteppingWith("read", 1) /\ Operand(0) \in Addresses) =>
              /\ effect' = None
              /\ Replaces(1, << memory[Operand(0)] >>)
        /\ ~SteppingOn("write") => memory' = memory
        /\ DOMAIN memory' = Addresses ]_vars

\* -1 has been written to the last address and 9 to the address 3, and the
\* `read` of the last address has pushed -1.
C20_Witness ==
    /\ operators = WriteReadScript.operators
    /\ last_call = "step"
    /\ before.next_operator = 4
    /\ effect = None
    /\ memory[MemoryLen - 1] = -1
    /\ memory[3] = 9
    /\ operand_stack = << -1 >>

----------------------------------------------------------------------------
(* C21 *)

\* C21: `read` and `write` with an address that is, as an unsigned word, not
\* below the length of the memory store InvalidAddress, change no word of the
\* memory and push nothing; the address, and the value of `write`, are
\* consumed.
C21_InvalidAddress ==
    [][ /\ (SteppingWith("read", 1) /\ Operand(0) \notin Addresses) =>
              /\ effect' = "InvalidAddress"
              /\ ~panicked'
              /\ Replaces(1, << >>)
              /\ memory' = memory
        /\ (SteppingWith("write", 2) /\ Operand(1) \notin Addresses) =>
              /\ effect' = "InvalidAddress"
              /\ ~panicked'
              /\ Replaces(2, << >>)
              /\ memory' = memory ]_vars

\* The `read` of "write 3 9 write read" has found an address outside of the
\* memory: InvalidAddress is stored, the stack is empty and the 9 is still
\* at 3.
C21_Witness ==
    /\ operators = WriteReadScript.operators
    /\ last_call = "step"
    /\ before.effect = None
    /\ before.next_operator = 4
    /\ before.depth = 1
    /\ effect = "InvalidAddress"
    /\ operand_stack = << >>
    /\ memory[3] = 9

----------------------------------------------------------------------------
(* The binary operators on given operands                                  *)

\* The operators that take two operands and do not jump.
TwoOperandIdentifiers ==
    BinaryIdentifiers \cup {"/", "shift_left", "shift_right", "write"}

InitBinary == InitOperands(TwoOperandIdentifiers, ArithStacks)

NextBinary == Step \/ ClearEffect

SpecBinary == InitBinary /\ [][NextBinary]_vars

\* The one word that a binary operator has left in place of its operands.
Result == operand_stack'[Len(operand_stack')]

\* Whether r is a << k, for 0 <= k < 32: bit i of a is bit i + k of r, and
\* the k lowest bits of r are zero.
IsShiftLeft(r, a, k) ==
    \A i \in 1..WordBits :
        Bits(r)[i] = IF i > k THEN Bits(a)[i - k] ELSE 0

\* Whether r is a >> k on i32, for 0 <= k < 32: a divided by 2^k, rounded
\* down.
IsShiftRight(r, a, k) ==
    IF k = WordBits - 1 THEN r = (IF a < 0 THEN -1 ELSE 0)
    ELSE r = a \div Pow2(k)

\* Whether r is a rotated to the left by the unsigned word n: bit i of a is
\* bit i + n modulo 32 of r.
IsRotateLeft(r, a, n) ==
    \A i \in 0..(WordBits - 1) :
        Bits(r)[((i + (n % WordBits)) % WordBits) + 1] = Bits(a)[i + 1]

----------------------------------------------------------------------------
(* C22 *)

\* C22: the binary operators take the top of the stack as their second
\* operand: on a stack that ends in a, b, `-` leaves a - b, `/` a / b and the
\* remainder of it, `<`, `<=`, `>` and `>=` the truth of a < b, a <= b, a > b
\* and a >= b, the shifts and rotations a shifted or rotated by b, and
\* `write` stores the value b at the address a.
C22_TopIsSecondOperand ==
    [][ \A id \in TwoOperandIdentifiers :
          SteppingWith(id, 2) =>
            LET a == Operand(1)
                b == Operand(0)
            IN  /\ id = "-" => IsDifferenceMod32(Result, a, b)
                /\ (id = "/" /\ Divisible(a, b)) =>
                      IsTruncatingDivision(
                          operand_stack'[Len(operand_stack') - 1], Result, a, b)
                /\ id = "<"  => (Result = 1 <=> a < b)
                /\ id = "<=" => (Result = 1 <=> a <= b)
                /\ id = ">"  => (Result = 1 <=> a > b)
                /\ id = ">=" => (Result = 1 <=> a >= b)
                /\ (id = "shift_left" /\ ~shift_overflows(b)) =>
                      IsShiftLeft(Result, a, b)
                /\ (id = "shift_right" /\ ~shift_overflows(b)) =>
                      IsShiftRight(Result, a, b)
                /\ id = "rotate_left" => IsRotateLeft(Result, a, b)
                /\ id = "rotate_right" => IsRotateLeft(a, Result, b)
                /\ (id = "write" /\ a \in Addresses) => memory'[a] = b
                /\ (id # "write" /\ effect' = None /\ ~panicked') =>
                      Len(operand_stack') >= Len(operand_stack) - 1 ]_vars

\* `shift_left` has been stepped on 7, 3 and 5 and has left 3 * 2^5 on the 7.
C22_Witness ==
    /\ operators = << Identifier("shift_left") >>
    /\ last_call = "step"
    /\ before.depth = 3
    /\ effect = None
    /\ ~panicked
    /\ operand_stack = << 7, 96 >>

----------------------------------------------------------------------------
(* C23 *)

\* C23: `<`, `<=`, `>` and `>=` replace a and b by 1 if the relation holds
\* between a and b read as signed integers and by 0 if it does not, and `=`
\* by 1 if a and b are the same word and by 0 if they are not; a comparison
\* pushes no other value and stores no effect.
C23_Comparisons ==
    [][ \A id \in {"<", "<=", "=", ">", ">="} :
          SteppingWith(id, 2) =>
            LET a == Operand(1)
                b == Operand(0)
                holds == CASE id = "<"  -> a < b
                           [] id = "<=" -> a <= b
                           [] id = "="  -> a = b
                           [] id = ">"  -> a > b
                           [] id = ">=" -> a >= b
            IN  /\ effect' = None
                /\ ~panicked'
                /\ Replaces(2, << IF holds THEN 1 ELSE 0 >>) ]_vars

\* `<` has been stepped on 7, a negative a and a positive b (or any a below
\* b), and has left 1 on the 7.
C23_Witness ==
    /\ operators = << Identifier("<") >>
    /\ last_call = "step"
    /\ before.depth = 3
    /\ effect = None
    /\ operand_stack = << 7, 1 >>

----------------------------------------------------------------------------
(* C24 *)

\* C24: `assert` consumes its operand in every case; it stores
\* AssertionFailed if and only if the operand is zero, and with any other
\* operand it stores no effect and changes nothing else.
C24_Assert ==
    [][ SteppingWith("assert", 1) =>
            /\ Replaces(1, << >>)
            /\ effect' = "AssertionFailed" <=> Operand(0) = 0
            /\ Operand(0) # 0 => effect' = None
            /\ ~panicked'
            /\ next_operator' = next_operator + 1
            /\ call_stack' = call_stack
            /\ memory' = memory ]_vars

\* `assert` has been stepped on two operands: the one on top has failed it
\* and is consumed, the other is still there.
C24_Witness ==
    /\ operators = << Identifier("assert") >>
    /\ last_call = "step"
    /\ before.effect = None
    /\ before.depth = 2
    /\ effect = "AssertionFailed"
    /\ Len(operand_stack) = 1

----------------------------------------------------------------------------
(* C25 *)

\* C25: a `yield` step stores Yield and leaves the operand stack, the call
\* stack and the memory as they are.
C25_Yield ==
    [][ SteppingOn("yield") =>
            /\ effect' = "Yield"
            /\ ~panicked'
            /\ operand_stack' = operand_stack
            /\ call_stack' = call_stack
            /\ memory' = memory ]_vars

\* `yield` has been stepped on two operands, which are still there.
C25_Witness ==
    /\ operators = << Identifier("yield") >>
    /\ last_call = "step"
    /\ before.effect = None
    /\ before.next_operator = 0
    /\ effect = "Yield"
    /\ Len(operand_stack) = 2

----------------------------------------------------------------------------
(* The compilation of given texts                                          *)

\* The characters of the short texts: a letter, the `:` of the labels, the
\* `@` of the references, a digit, the `#` of the comments, a space and a
\* newline.
Alphabet == { "a", ":", "@", "1", "#", " ", "\n" }

\* The longest of the short texts.
MaxSourceLen == 4

\* "4294967295 4294967296": tests/integers.rs, trigger_effect_on_integer_overflow
OverflowSource ==
    << "4", "2", "9", "4", "9", "6", "7", "2", "9", "5", " ", "4", "2", "9",
       "4", "9", "6", "7", "2", "9", "6" >>

\* "@a a: 1 a: 2": two labels of one name
TwoLabelsSource ==
    << "@", "a", " ", "a", ":", " ", "1", " ", "a", ":", " ", "2" >>

\* "1 1 + unknown 2": an unknown identifier behind operators that succeed
UnknownSource ==
    << "1", " ", "1", " ", "+", " ", "u", "n", "k", "n", "o", "w", "n", " ",
       "2" >>

\* "1 @a 2": a reference to no label between two integers
UnresolvedSource ==
    << "1", " ", "@", "a", " ", "2" >>

\* "a: b: 1 c:": two labels in front of one operator, and a label behind the last
LabelsSource ==
    << "a", ":", " ", "b", ":", " ", "1", " ", "c", ":" >>

\* Texts of one decimal token: digits, behind a sign or none.  The numbers
\* are small ones, the ends of the i32 and of the u32 range and their
\* neighbours, numbers beyond 2^32, and numbers with zeros in front.
DecimalSources ==
    { sign \o digits :
        sign \in { << >>, << "+" >>, << "-" >> },
        digits \in {
          << "0" >>,
          << "7" >>,
          << "0", "0", "7" >>,
          << "6", "5", "5", "3", "6" >>,
          << "2", "1", "4", "7", "4", "8", "3", "6", "4", "7" >>,
          << "2", "1", "4", "7", "4", "8", "3", "6", "4", "8" >>,
          << "2", "1", "4", "7", "4", "8", "3", "6", "4", "9" >>,
          << "4", "2", "9", "4", "9", "6", "7", "2", "9", "5" >>,
          << "4", "2", "9", "4", "9", "6", "7", "2", "9", "6" >>,
          << "4", "2", "9", "4", "9", "6", "7", "2", "9", "7" >>,
          << "4", "2", "9", "4", "9", "7", "7", "2", "9", "5" >>,
          << "9", "9", "9", "9", "9", "9", "9", "9", "9", "9" >>,
          << "1", "0", "0", "0", "0", "0", "0", "0", "0", "0", "0" >>,
          << "0", "0", "0", "0", "4", "2", "9",
             "4", "9", "6", "7", "2", "9", "5" >>,
          << "0", "0", "0", "0", "0", "2", "1",
             "4", "7", "4", "8", "3", "6", "4", "8" >>,
          << "9", "9", "9", "9", "9", "9", "9", "9", "9", "9",
             "9", "9", "9", "9", "9", "9", "9", "9", "9", "9" >> } }

\* Every text over the alphabet of up to MaxSourceLen characters, the texts
\* above, and texts whose tokens are separated by the other whitespace
\* characters: "1\f2", "a:" and "1" around a vertical tab, "a\f#b c" and
\* "1\t2\r3".
Sources ==
    UNION { [1..n -> Alphabet] : n \in 0..MaxSourceLen } \cup
    { OverflowSource, TwoLabelsSource, UnknownSource, UnresolvedSource,
      LabelsSource } \cup
    DecimalSources \cup
    { << "1", "\f", "2" >>,
      << "a", ":", "", "1" >>,
      << "a", "\f", "#", "b", " ", "c" >>,
      << "1", "\t", "2", "\r", "3" >> }

\* Eval::start(text), for a text out of Sources.
InitCompile ==
    /\ \E text \in Sources : Started(text)
    /\ overflow_checks \in BOOLEAN
    /\ next_operator = start.next_operator
    /\ call_stack = start.call_stack
    /\ effect = start.effect
    /\ operand_stack = start.operand_stack
    /\ memory = start.memory
    /\ panicked = start.panicked
    /\ last_call = "start"
    /\ before = Snapshot
    /\ run_count = 0
    /\ host_calls = 0
    /\ calls = << >>
    /\ twin = [eval |-> start, done |-> 0]

NextCompile == Step \/ ClearEffect

SpecCompile == InitCompile /\ [][NextCompile]_vars

----------------------------------------------------------------------------
(* C26 *)

\* C26: creating an evaluation evaluates nothing.  Whatever the text of the
\* script is, the state that Eval::start leaves has no effect, the cursor at
\* 0, an empty operand stack, an empty call stack, and a memory of 1024
\* words that are all zero.
C26_StartEvaluatesNothing ==
    last_call = "start" =>
        /\ effect = None
        /\ next_operator = 0
        /\ operand_stack = << >>
        /\ call_stack = << >>
        /\ DOMAIN memory = 0..1023
        /\ \A a \in DOMAIN memory : memory[a] = 0

\* An evaluation has been created for a script with operators and a label,
\* and the host has made no call yet.
C26_Witness ==
    /\ last_call = "start"
    /\ Len(operators) >= 2
    /\ labels # << >>
    /\ next_operator = 0

----------------------------------------------------------------------------
(* C27 *)

\* C27: a step that dispatches a reference whose name some label has pushes
\* the target of the first label of that name, in the order of the source,
\* and stores no effect; a later label of the same name is never the one
\* that is used.
C27_ReferenceTakesFirstLabel ==
    [][ \A i \in 1..Len(labels) :
          ( /\ Stepping
            /\ has_operator(next_operator)
            /\ operators[next_operator + 1].kind = "Reference"
            /\ labels[i].name = operators[next_operator + 1].text
            /\ \A j \in 1..(i - 1) :
                  labels[j].name # operators[next_operator + 1].text )
          => /\ operand_stack' = Append(operand_stack, labels[i].operator)
             /\ effect' = None
             /\ next_operator' = next_operator + 1 ]_vars

\* `@a a: 1 a: 2` after one step: the reference has pushed 1, the target of
\* the first `a:`, and the second `a:` has the target 2.
C27_Witness ==
    /\ last_call = "step"
    /\ source = TwoLabelsSource
    /\ before.next_operator = 0
    /\ labels = << Label("a", 1), Label("a", 2) >>
    /\ operand_stack = << 1 >>

----------------------------------------------------------------------------
(* C28 *)

\* C28: compilation rejects no script, and an unknown identifier or an
\* unresolved reference is detected only when the evaluation reaches it.  A
\* step stores UnknownIdentifier exactly if the operator that it dispatches
\* is an identifier outside of the vocabulary, and InvalidReference exactly
\* if it is a reference to a name that no label has; such a step leaves the
\* operand stack, the call stack and the memory as they are and the cursor
\* behind the operator.  The steps before it are those of the operators that
\* they dispatch: none of them stores one of the two effects.
C28_ErrorsDetectedWhenReached ==
    [][ Stepping =>
          /\ (effect' = "UnknownIdentifier") <=>
                ( /\ has_operator(next_operator)
                  /\ operators[next_operator + 1].kind = "Identifier"
                  /\ operators[next_operator + 1].text \notin Vocabulary )
          /\ (effect' = "InvalidReference") <=>
                ( /\ has_operator(next_operator)
                  /\ operators[next_operator + 1].kind = "Reference"
                  /\ \A i \in 1..Len(labels) :
                        labels[i].name # operators[next_operator + 1].text )
          /\ effect' \in {"UnknownIdentifier", "InvalidReference"} =>
                /\ operand_stack' = operand_stack
                /\ call_stack' = call_stack
                /\ memory' = memory
                /\ next_operator' = next_operator + 1 ]_vars

\* `1 1 + unknown 2` after four steps: the three operators in front of
\* `unknown` have left their sum, and the step that has dispatched `unknown`
\* has stored UnknownIdentifier and left the sum where it was.
C28_Witness ==
    /\ last_call = "step"
    /\ source = UnknownSource
    /\ before.next_operator = 3
    /\ before.effect = None
    /\ effect = "UnknownIdentifier"
    /\ operand_stack = << 2 >>

----------------------------------------------------------------------------
(* The tokens of a text                                                    *)

\* The character at an offset of a text.
CharAt(script, i) == script[i + 1]

\* The offset is that of the first character of a whitespace-separated word.
StartsWord(script, i) ==
    /\ CharAt(script, i) \notin Whitespace
    /\ i = 0 \/ CharAt(script, i - 1) \in Whitespace

\* The character at the offset is in a comment: a word of its line, at or in
\* front of the offset, begins with `#`.
InComment(script, i) ==
    \E j \in 0..i :
        /\ CharAt(script, j) = "#"
        /\ StartsWord(script, j)
        /\ \A k \in j..(i - 1) : CharAt(script, k) # "\n"

\* The offsets at which the tokens of a text start: the words outside of the
\* comments.
TokenStarts(script) ==
    { i \in 0..(Len(script) - 1) :
        StartsWord(script, i) /\ ~InComment(script, i) }

\* The offset behind the token that starts at offset i.
TokenEnd(script, i) ==
    CHOOSE k \in (i + 1)..Len(script) :
        /\ k = Len(script) \/ CharAt(script, k) \in Whitespace
        /\ \A j \in i..(k - 1) : CharAt(script, j) \notin Whitespace

\* The characters of the token that starts at offset i.
TokenAt(script, i) == SubSeq(script, i + 1, TokenEnd(script, i))

\* The offsets at which the tokens that end with `:` start, and those at
\* which the other tokens start.
ColonTokens(script) ==
    { i \in TokenStarts(script) : script[TokenEnd(script, i)] = ":" }

OtherTokens(script) == TokenStarts(script) \ ColonTokens(script)

\* The k-th offset of a set of offsets, in increasing order.
Nth(offsets, k) ==
    CHOOSE i \in offsets : Cardinality({ j \in offsets : j < i }) = k - 1

----------------------------------------------------------------------------
(* C29 *)

\* C29: a label emits no operator, and its target is the number of operators
\* emitted before it.  The labels of the table are the tokens that end with
\* `:`, in the order of the source, each named by what is in front of its
\* last `:`; the operators are the other tokens; and the target of a label
\* is the number of those other tokens in front of it.  So a label points at
\* the operator that follows it, labels with no operator between them share
\* a target, and a label behind the last operator has the number of
\* operators as its target.
C29_LabelTargets ==
    /\ Len(labels) = Cardinality(ColonTokens(source))
    /\ Len(operators) = Cardinality(OtherTokens(source))
    /\ \A k \in 1..Len(labels) :
          LET at    == Nth(ColonTokens(source), k)
              token == TokenAt(source, at)
          IN  /\ labels[k].name = Join(SubSeq(token, 1, Len(token) - 1))
              /\ labels[k].operator =
                    Cardinality({ i \in OtherTokens(source) : i < at })
              /\ labels[k].operator <= Len(operators)

\* `a: b: 1 c:`: one operator; `a:` and `b:` share the target 0, and `c:`,
\* behind the last operator, has the target 1.
C29_Witness ==
    /\ source = LabelsSource
    /\ Len(operators) = 1
    /\ labels = << Label("a", 0), Label("b", 0), Label("c", 1) >>

----------------------------------------------------------------------------
(* C30 *)

\* C30: a token is recorded as a label, and emits no operator, exactly if it
\* ends with `:` and has a name in front of that `:`; every other token, the
\* token `:` alone among them, emits exactly one operator.  So there are as
\* many labels as tokens of that shape, and as many operators as other
\* tokens.
C30_LabelsHaveNames ==
    LET named == { i \in ColonTokens(source) :
                     Len(TokenAt(source, i)) >= 2 }
    IN  /\ Len(labels) = Cardinality(named)
        /\ Len(operators) = Cardinality(TokenStarts(source) \ named)
        /\ \A k \in 1..Len(labels) : labels[k].name # ""

----------------------------------------------------------------------------
(* C31 *)

\* C31: any `#` introduces a comment, at the start of a token or directly
\* behind other characters of it: the characters from a `#` up to the next
\* newline contribute to no operator and to no label, and what follows the
\* newline is compiled as usual.  So a text compiles to the operators and
\* labels of the text that has a space in the place of each such character.
C31_AnyHashStartsComment ==
    LET Hidden(i) ==
            \E j \in 1..i :
                /\ source[j] = "#"
                /\ \A k \in j..(i - 1) : source[k] # "\n"
        blanked == [i \in 1..Len(source) |->
                       IF Hidden(i) THEN " " ELSE source[i]]
    IN  /\ operators = compile(blanked).operators
        /\ labels = compile(blanked).labels

----------------------------------------------------------------------------
(* C32 *)

\* C32: Script::operators yields the operators with the indices 0, 1, ...,
\* n - 1, in the order of the source, and map_operator_to_source maps each
\* of these indices to the range of the token that has produced the
\* operator: the substring of the source in that range is free of whitespace
\* and compiles to the operator.  The tokens of the labels and the text of
\* the comments are in no range, and the ranges are disjoint and increase
\* with the index.
C32_SourceMapRoundTrip ==
    /\ Len(operators) = Cardinality(OtherTokens(source))
    /\ \A k \in 1..Len(operators_with_indices) :
          LET item  == operators_with_indices[k]
              r     == map_operator_to_source(item.index)
              token == SubSeq(source, r.range.start + 1, r.range.end)
          IN  /\ item.index = k - 1
              /\ r.ok
              /\ r.range.start = Nth(OtherTokens(source), k)
              /\ r.range.end = TokenEnd(source, r.range.start)
              /\ token # << >>
              /\ \A i \in 1..Len(token) : token[i] \notin Whitespace
              /\ item.operator = parse_operator(token)
              /\ \A i \in r.range.start..(r.range.end - 1) :
                    /\ ~InComment(source, i)
                    /\ \A j \in ColonTokens(source) :
                          i < j \/ i >= TokenEnd(source, j)
              /\ k > 1 =>
                    map_operator_to_source(item.index - 1).range.end
                        < r.range.start

\* `@a a: 1 a: 2`: the three operators have the ranges of `@a`, `1` and `2`,
\* and the two labels between them have none.
C32_Witness ==
    /\ source = TwoLabelsSource
    /\ Len(operators) = 3
    /\ DOMAIN source_map = 0..2
    /\ source_map[0] = [start |-> 0, end |-> 2]
    /\ source_map[1] = [start |-> 6, end |-> 7]
    /\ source_map[2] = [start |-> 11, end |-> 12]

----------------------------------------------------------------------------
(* C33 *)

\* C33: a decimal token (digits, behind a sign or none) compiles to an
\* Integer exactly if its value is in -2^31 .. 2^32 - 1, and the step that
\* dispatches it pushes the value modulo 2^32 and stores no effect; a decimal
\* token of another value compiles to an Identifier, and the step that
\* dispatches it stores UnknownIdentifier and pushes nothing.  The value is
\* read off the digits: without the zeros in front, a number of at most ten
\* digits is high * 10000 + low, to be compared with 2^31 = 214748 3648 and
\* 2^32 = 429496 7296.
C33_DecimalTokens ==
    [][ ( /\ Stepping /\ has_operator(next_operator) ) =>
          LET range    == map_operator_to_source(next_operator).range
              token    == SubSeq(source, range.start + 1, range.end)
              signed   == token[1] \in {"+", "-"}
              digits   == IF signed THEN Tail(token) ELSE token
              decimal  == /\ digits # << >>
                          /\ \A i \in 1..Len(digits) : to_digit(digits[i]) < 10
              zeros    == { i \in 1..(Len(digits) - 1) :
                              \A j \in 1..i : digits[j] = "0" }
              number   == SubSeq(digits, Cardinality(zeros) + 1, Len(digits))
              split    == IF Len(number) > 4 THEN Len(number) - 4 ELSE 0
              Read[k \in 0..Len(number)] ==
                  IF k = 0 \/ k = split + 1
                      THEN IF k = 0 THEN 0 ELSE to_digit(number[k])
                      ELSE Read[k - 1] * 10 + to_digit(number[k])
              high     == Read[split]
              low      == Read[Len(number)]
              below31  == high < 214748 \/ (high = 214748 /\ low < 3648)
              below32  == high < 429496 \/ (high = 429496 /\ low < 7296)
              in_range ==
                  /\ Len(number) <= 10
                  /\ IF token[1] = "-"
                         THEN below31 \/ (high = 214748 /\ low = 3648)
                         ELSE below32
              word     ==
                  IF token[1] = "-"
                      THEN IF below31 THEN 0 - (high * 10000 + low)
                           ELSE I32_MIN
                  ELSE IF below31 THEN high * 10000 + low
                  ELSE (high - 429496) * 10000 + (low - 7296)
          IN  decimal =>
                /\ (operators[next_operator + 1].kind = "Integer") <=> in_range
                /\ in_range =>
                      /\ operand_stack' = Append(operand_stack, word)
                      /\ effect' = None
                /\ ~in_range =>
                      /\ operators[next_operator + 1] = Identifier(Join(token))
                      /\ operand_stack' = operand_stack
                      /\ effect' = "UnknownIdentifier" ]_vars

\* `4294967295 4294967296` after two steps: the first token has pushed
\* 2^32 - 1, which reads as -1, and the second has stored UnknownIdentifier.
C33_Witness ==
    /\ last_call = "step"
    /\ source = OverflowSource
    /\ before.next_operator = 1
    /\ operand_stack = << -1 >>
    /\ effect = "UnknownIdentifier"

----------------------------------------------------------------------------
(* C34 *)

\* Two evaluations of one source.  The host creates both with Eval::start,
\* drives the first with up to MaxTwinCalls calls, and makes the same calls,
\* in the same order and with the same arguments, on the second, which may
\* lag behind the first by any number of calls.

\* One call of the host on the evaluation e: eval.step(), eval.run(),
\* eval.effect = None, eval.operand_stack.push(value),
\* eval.operand_stack.pop() and eval.memory.write(address, value).
call(e, c) ==
    CASE c.name = "step"  -> step(e)
      [] c.name = "run"   -> run(e).eval
      [] c.name = "clear" -> [e EXCEPT !.effect = None]
      [] c.name = "push"  -> push(e, c.value)
      [] c.name = "pop"   -> pop(e).eval
      [] c.name = "write" -> IF ult(c.address, MemoryLen)
                                 THEN [e EXCEPT !.memory[c.address] = c.value]
                                 ELSE e

\* The host makes a call on the first evaluation; the call and the state
\* that it leaves are recorded.  A run is one that ends.
First ==
    /\ ~panicked
    /\ Len(calls) < MaxTwinCalls
    /\ \E c \in [name : {"step", "run", "clear", "pop"},
                 address : {0}, value : {0}] \cup
                [name : {"push"}, address : {0}, value : {1, 32}] \cup
                [name : {"write"}, address : {1, MemoryLen}, value : {3}] :
          /\ c.name = "run" =>
                run(Eval).returned \/ run(Eval).eval.panicked
          /\ SetEval(call(Eval, c))
          /\ calls' = Append(calls, [made |-> c, after |-> call(Eval, c)])
          /\ last_call' = c.name
    /\ before' = Snapshot
    /\ UNCHANGED << source, source_map, operators, labels,
                    overflow_checks, run_count, host_calls, twin >>

\* The host makes the next of the recorded calls on the second evaluation.
Again ==
    /\ twin.done < Len(calls)
    /\ twin' = [eval |-> call(twin.eval, calls[twin.done + 1].made),
                done |-> twin.done + 1]
    /\ UNCHANGED << source, source_map, operators, labels, next_operator,
                    call_stack, effect, operand_stack, memory, panicked,
                    overflow_checks, last_call, before, run_count,
                    host_calls, calls >>

NextTwin == First \/ Again

\* Evaluations of `read`, `write` and `shift_left`, whose operands the host
\* supplies, of `1 @2 call 3 return 2: 2 return` and of a script that yields.
SpecTwin ==
    /\ InitWith({ Script(<< Identifier("read") >>, << >>),
                  Script(<< Identifier("write") >>, << >>),
                  Script(<< Identifier("shift_left") >>, << >>),
                  CallReturnScript, YieldScript })
    /\ [][NextTwin]_vars

    /\ operand_stack = << 0 >>

----------------------------------------------------------------------------
(* C35 *)

\* C35: the memory never grows or shrinks.  After any calls, those with a
\* `read` or a `write` that fails among them, the memory has the addresses
\* that it had when the evaluation was created.
C35_MemoryLengthFixed ==
    DOMAIN memory = DOMAIN start.memory

\* "write 3 9 write read" on the stack -1 0 3: the two writes have stored 3
\* at the address 0 and 9 at the address 3, and the read of the address
\* 2^32 - 1 has failed.
C35_Witness ==
    /\ operators = WriteReadScript.operators
    /\ last_call = "step"
    /\ before.next_operator = 4
    /\ effect = "InvalidAddress"
    /\ memory[0] = 3
    /\ memory[3] = 9

----------------------------------------------------------------------------
(* C36 *)

\* C36: the keys of the source map are the indices 0, ..., n - 1 of the n
\* operators: one entry for each operator, none for a label.  So
\* map_operator_to_source succeeds for the indices below n and for no other:
\* not for n and the indices behind it, not for the target of a label that
\* no operator follows, and not for the largest index, 2^32 - 1.
C36_SourceMapKeys ==
    /\ DOMAIN source_map = 0..(Len(operators) - 1)
    /\ \A index \in 0..(Len(operators) + 2) \cup {-1}
                     \cup { labels[i].operator : i \in 1..Len(labels) } :
          map_operator_to_source(index).ok <=> ult(index, Len(operators))

\* `a: b: 1 c:`: the one operator has the index 0; the target 1 of `c:` is
\* the number of operators and maps to no range.
C36_Witness ==
    /\ source = LabelsSource
    /\ labels[3] = Label("c", 1)
    /\ map_operator_to_source(0) = [ok |-> TRUE,
                                    range |-> [start |-> 6, end |-> 7]]
    /\ ~map_operator_to_source(1).ok

----------------------------------------------------------------------------
(* Jumps and calls to given targets                                        *)

\* A script of one jump or call, on a stack of up to three words of the
\* host: targets that are the operator itself, the index behind it, an index
\* beyond it and indices beyond i32::MAX, and conditions that are 0 and not.
InitJump ==
    InitOperands({"jump", "jump_if", "call", "call_either"},
                 UNION { [1..n -> {0, 1, 2, 7, -1, I32_MIN}] : n \in 0..3 })

NextJump == Step \/ ClearEffect

SpecJump == InitJump /\ [][NextJump]_vars

----------------------------------------------------------------------------
(* C37 *)

\* C37: the target of a jump is not validated when the jump is taken.  A
\* step that dispatches `jump`, `jump_if`, `call` or `call_either` with its
\* operands on the stack sets the cursor to the target that it has popped,
\* whatever word that is, and stores no effect (`jump_if` with a condition
\* of 0 leaves the cursor behind itself).  A step that finds the cursor at
\* no operator stores OutOfOperators and changes nothing else: so a jump to
\* the index behind the last operator ends the evaluation with the step
\* that follows it.
C37_TargetsNotValidated ==
    [][ /\ SteppingWith("jump", 1) =>
              /\ next_operator' = Operand(0)
              /\ effect' = None
        /\ SteppingWith("jump_if", 2) =>
              /\ next_operator' = IF to_bool(Operand(1))
                                      THEN Operand(0)
                                      ELSE next_operator + 1
              /\ effect' = None
        /\ SteppingWith("call", 1) =>
              /\ next_operator' = Operand(0)
              /\ effect' = None
        /\ SteppingWith("call_either", 3) =>
              /\ next_operator' = IF to_bool(Operand(2))
                                      THEN Operand(1)
                                      ELSE Operand(0)
              /\ effect' = None
        /\ ( Stepping /\ ~ult(next_operator, Len(operators)) ) =>
              /\ effect' = "OutOfOperators"
              /\ next_operator' = next_operator
              /\ operand_stack' = operand_stack
              /\ call_stack' = call_stack
              /\ memory' = memory ]_vars

\* `call_either` on the stack 0 7 -1: the call has taken the else branch to
\* the index 2^32 - 1 without an effect, and the step after it has stored
\* OutOfOperators.
C37_Witness ==
    /\ operators = << Identifier("call_either") >>
    /\ last_call = "step"
    /\ before.effect = None
    /\ before.next_operator = -1
    /\ next_operator = -1
    /\ call_stack = << 1 >>
    /\ operand_stack = << >>
    /\ effect = "OutOfOperators"

----------------------------------------------------------------------------
(* C38 *)

\* C38: in every reachable state, each entry of the call stack is i + 1 for
\* an index i at which the script has a `call` or a `call_either`, so that
\* every return address is in 1 .. n; and the call stack changes only in
\* steps that dispatch `call`, `call_either` or `return`: in no other step,
\* in no run of a script without these identifiers, and in no call of the
\* host that is not a step or a run.
C38_CallStackEntries ==
    /\ []ReturnAddressesFollowCalls
    /\ [][ call_stack' # call_stack =>
             /\ last_call' \in {"step", "run"}
             /\ \E k \in 1..Len(operators) :
                   operators[k].text \in {"call", "call_either", "return"}
             /\ last_call' = "step" =>
                   /\ has_operator(next_operator)
                   /\ operators[next_operator + 1].kind = "Identifier"
                   /\ operators[next_operator + 1].text \in
                         {"call", "call_either", "return"} ]_vars

\* `@a call return a: @b call return b: return` in the call within the
\* call: the return addresses are 2 and 5, behind the two calls.
C38_Witness ==
    /\ operators = NestedCallScript.operators
    /\ last_call = "step"
    /\ before.calls = 1
    /\ call_stack = << 2, 5 >>
    /\ next_operator = 6

----------------------------------------------------------------------------
(* C39 *)

\* C39: in a script of n operators without `jump`, `jump_if`, `call`,
\* `call_either` and `return`, the cursor never decreases, and a run stores
\* an effect after at most n + 1 steps, in whatever state of the evaluation
\* it begins.  There is no such bound otherwise: `loop: @loop jump`, which
\* the host steps and runs without a push, a pop or a write of its own, never
\* stores an effect, and no run of it ends.
C39_StraightLineRunsEnd ==
    /\ []( ( /\ ~panicked
             /\ \A k \in 1..Len(operators) :
                   operators[k].text \notin
                       {"jump", "jump_if", "call", "call_either", "return"} )
           => /\ run_loop(Eval, Len(operators) + 1).returned
              /\ run_loop(Eval, Len(operators) + 1).eval.effect # None )
    /\ [][ ( \A k \in 1..Len(operators) :
                operators[k].text \notin
                    {"jump", "jump_if", "call", "call_either", "return"} )
           => ~ult(next_operator', next_operator) ]_vars
    /\ []( (operators = LoopScript.operators /\ host_calls = 0)
           => /\ effect = None
              /\ ~run_loop(Eval, MaxRunSteps).returned )

====
